---- MODULE Spec2Model ----
(***************************************************************************)
(* NanoBananaStudio: the client-side state and persistence core of the     *)
(* TextGenerator component (main studio controller, edit session, durable  *)
(* history store) as a state machine.                                      *)
(*                                                                         *)
(* One action is one run of a handler on the single JavaScript thread: a   *)
(* handler's synchronous part, the React re-render that follows it and the *)
(* effects of that render (the save effect, the loading effect) are one    *)
(* step.  An `await` ends the step; the continuation is a later step.      *)
(*                                                                         *)
(* Text is a sequence of one-character strings, so that trim() and the     *)
(* "Edit: " prefix are computed.  A nullable reference is Null or a record.*)
(* The purely visual toasts (download / success / error) are not state of  *)
(* the model; the warning toast is, because the close guard raises it.     *)
(***************************************************************************)
EXTENDS Integers, Sequences, FiniteSets, TLC

(* ------------------------------ bounds -------------------------------- *)
MaxGestures == 5      \* user gestures (clicks, keys, typing) in one behaviour
MaxLongGestures == 14   \* gestures in one behaviour of a long working session
MaxLiveGestures == 5    \* gestures in one behaviour with calls that always settle
MaxStoreGestures == 3   \* gestures in one behaviour of the studio over any store
MaxStored == 2          \* entries of the stored list when the page is opened
MaxReferences == 3      \* reference images in one call of the generation client
MaxPipelineGestures == 8  \* gestures in one behaviour of the pipeline editor
MaxGraphGestures == 7   \* gestures in one behaviour of the editor with its canvas
MaxStudioGestures == 4  \* gestures in one behaviour of the studio with its form
MaxTime == 1          \* Date.now() ranges over 0..MaxTime after start-up
MaxDbOps == 2         \* store operations queued behind one another

(* ------------------------- program constants -------------------------- *)
HistoryLimit == 10    \* slice(0, 10)
UploadLimit == 2      \* slice(0, 2)

Null == [null |-> TRUE]

Resolutions == {"1K", "2K", "4K"}
UiAspectRatios == {"1:1", "3:4", "4:3", "9:16", "16:9", "21:9"}

(* The setting buttons a user presses in the explored behaviours.          *)
PressedResolutions == {"1K", "4K"}
PressedAspectRatios == {"1:1", "16:9"}

(* Texts a user types: empty, whitespace only, and text with content.      *)
Prompts == { <<>>, <<" ">>, <<" ", "a">> }

(* Texts typed into a node of the pipeline: empty, and whitespace.         *)
NodePrompts == { <<>>, <<" ">> }

EditPrefix == <<"E", "d", "i", "t", ":", " ">>

(* Messages carried by a rejected remote call; "" is an Error without one. *)
ErrMessages == {"", "quota"}

(* ------------------------------ helpers ------------------------------- *)
Min(a, b) == IF a < b THEN a ELSE b

(* Array.prototype.slice(0, n) *)
SliceTo(s, n) == SubSeq(s, 1, Min(n, Len(s)))

IsSpace(c) == c = " "

RECURSIVE TrimStart(_)
TrimStart(s) ==
  IF s # <<>> /\ IsSpace(Head(s)) THEN TrimStart(Tail(s)) ELSE s

RECURSIVE TrimEnd(_)
TrimEnd(s) ==
  IF s # <<>> /\ IsSpace(s[Len(s)]) THEN TrimEnd(SubSeq(s, 1, Len(s) - 1)) ELSE s

(* A trim that leaves the string as it is.                                 *)
TrimNothing(s) == s

(* String.prototype.trim() *)
Trim(s) == TrimEnd(TrimStart(s))

(* JavaScript truthiness of a string *)
Truthy(s) == s # <<>>

(* t(key): the localized text of a key *)
T(key) == "t:" \o key

(* A record of the persisted history written by an earlier session.        *)
OldRecord(i) == [url |-> <<"old", i>>, prompt |-> <<"o">>, timestamp |-> 0 - i]

(* A stored legacy entry: a bare image string, with no metadata.           *)
BareString(i) == [url |-> <<"old", i>>]

OldRecords(n) == [i \in 1..n |-> OldRecord(i)]
OldStrings(n) == [i \in 1..n |-> BareString(i)]

(* The nodes of the pipeline editor at construction, by id.                *)
InitialNodes ==
  [id \in {"1", "img-1", "2", "3"} |->
     CASE id = "1" -> [type |-> "promptNode", prompt |-> <<>>]
       [] id = "img-1" -> [type |-> "imageNode", images |-> <<>>]
       [] id = "2" -> [type |-> "generatorNode", loading |-> FALSE,
                       resolution |-> "1K", aspectRatio |-> "1:1",
                       error |-> Null, outputImage |-> Null]
       [] id = "3" -> [type |-> "outputNode", image |-> Null]]

(* The edges of the pipeline editor at construction, in order.             *)
InitialEdges ==
  << [id |-> "e1-2", source |-> "1", target |-> "2", targetHandle |-> "prompt-in"],
     [id |-> "eImg-2", source |-> "img-1", target |-> "2", targetHandle |-> "image-in"],
     [id |-> "e2-3", source |-> "2", target |-> "3", targetHandle |-> "in"] >>

(* The lists an earlier session may have stored under 'recent': a flat     *)
(* list of bare image strings (the legacy format) or a list of records.    *)
StoredLists ==
  UNION { [1..n -> {BareString(1), BareString(2)}] \cup
          [1..n -> {OldRecord(1), OldRecord(2)}] : n \in 0..MaxStored }

(* What the 'recent' key of the store may hold when the page is opened.    *)
StoredAtStart == { <<>>, OldRecords(HistoryLimit), OldStrings(2) }

VARIABLES
  prompt, image, previewImage, history, isHistoryLoaded, uploadedImages,
  resolution, aspectRatio, loading, error,
  isEditSidebarOpen, editingImage, editPrompt, isEditing,
  showClearDialog, showDeleteDialog, imageToDelete,
  showWarningToast, warningMsg,
  genCalls, editCalls, uploadJobs, timers,
  db, dbOps,
  now, nreq, gestures,
  results,  \* the records produced by generate/edit successes, oldest first,
            \* since the last confirmed delete or clear
  nodes, edges, wfCalls,  \* the pipeline editor and its remote calls in flight
  unhandled,  \* the store calls ("load", "save") whose promise was rejected
              \* with no handler: an unhandled rejection
  shortcutPreview,  \* the previewImage seen by the Ctrl+Enter handler that
                    \* is registered: the effect's dependencies leave it out
  call,       \* the arguments of a call of generateImage
  request     \* what that call handed to ai.models.generateContent, or Null

formVars == <<prompt, uploadedImages, resolution, aspectRatio>>
sessionVars == <<isEditSidebarOpen, editingImage, editPrompt, isEditing>>
dialogVars == <<showClearDialog, showDeleteDialog, imageToDelete>>
toastVars == <<showWarningToast, warningMsg, timers>>
storeVars == <<db, dbOps>>
boundVars == <<now, nreq, gestures, results>>
pipeVars == <<nodes, edges, wfCalls>>
clientVars == <<call, request>>

vars == <<prompt, image, previewImage, history, isHistoryLoaded, uploadedImages,
          resolution, aspectRatio, loading, error,
          isEditSidebarOpen, editingImage, editPrompt, isEditing,
          showClearDialog, showDeleteDialog, imageToDelete,
          showWarningToast, warningMsg,
          genCalls, editCalls, uploadJobs, timers,
          db, dbOps,
          now, nreq, gestures, results,
          nodes, edges, wfCalls, unhandled, shortcutPreview, call, request>>

(* Everything of the main studio and its store.                            *)
studioVars == <<formVars, sessionVars, dialogVars, toastVars, storeVars, image,
                previewImage, history, isHistoryLoaded, loading, error,
                genCalls, editCalls, uploadJobs, now, results, unhandled,
                shortcutPreview>>

(* The dependencies of the effect that registers the Ctrl+Enter handler.   *)
shortcutDeps == <<isEditSidebarOpen, prompt, editPrompt, editingImage, isEditing,
                  loading, resolution, aspectRatio, uploadedImages>>

(* The render after a step: when a dependency changed the effect registers *)
(* a handler that closes over the previewImage of that render; otherwise   *)
(* the old handler stays.                                                  *)
ShortcutClosure ==
  shortcutPreview' = IF shortcutDeps' # shortcutDeps THEN previewImage'
                     ELSE shortcutPreview

(* The history tiles a user clicks: the newest and the oldest one.          *)
Tiles == { i \in 1..Len(history) : i = 1 \/ i = Len(history) }

(* ------------------------ generation client --------------------------- *)

(* The AspectRatio type of the client. *)
AspectRatios ==
  {"1:1", "2:3", "3:2", "3:4", "4:3", "4:5", "5:4", "9:16", "16:9", "21:9"}

(* Reference images a caller may pass: data URLs, and a string that is     *)
(* not one.                                                                *)
ReferenceImages == {<<"up", 1>>, <<"up", 2>>, <<"up", 3>>, <<"malformed", 1>>}

(* imgData.match(/^data:(.+);base64,(.+)$/) *)
MatchesDataUrl(imgData) == imgData[1] # "malformed"

(* A client that loops over every image it is given.                       *)
ImagesToProcessUncapped(referenceImages) == referenceImages

(* const imagesToProcess = referenceImages.slice(0, 2) *)
ImagesToProcess(referenceImages) == SliceTo(referenceImages, 2)

(* The inlineData parts pushed by the loop over imagesToProcess.           *)
InlineParts(referenceImages) ==
  SelectSeq(ImagesToProcess(referenceImages), MatchesDataUrl)

ValidRatios == {"1:1", "3:4", "4:3", "9:16", "16:9", "21:9"}

(* A client that passes the ratio on as it got it.                         *)
FinalAspectRatioAsGiven(ratio) == ratio

(* validRatios.includes(aspectRatio) ? aspectRatio : "1:1" *)
FinalAspectRatio(ratio) == IF ratio \in ValidRatios THEN ratio ELSE "1:1"

(* The arguments of generateImage over which the client is checked.        *)
ClientCalls ==
  [prompt : {<<"a">>},
   referenceImages : UNION {[1..n -> ReferenceImages] : n \in 0..MaxReferences},
   resolution : {"1K"},
   aspectRatio : AspectRatios]

(* generateImage up to its await: getClient throws without an API key;     *)
(* otherwise the parts and the config of generateContent are built and     *)
(* the request is dispatched.                                              *)
GenerateImage ==
  /\ call # Null /\ request = Null
  /\ \E apiKey \in BOOLEAN :
       IF apiKey
         THEN request' = [text |-> call.prompt,
                          inlineData |-> InlineParts(call.referenceImages),
                          imageSize |-> call.resolution,
                          aspectRatio |-> FinalAspectRatio(call.aspectRatio)]
         ELSE UNCHANGED request
  /\ UNCHANGED <<studioVars, pipeVars, nreq, gestures, call>>

(* ---------------------- Durable History Store ------------------------- *)

(* typeof x === 'string' for a stored entry *)
IsString(x) == DOMAIN x = {"url"}

(* A migration that wraps every stored list, migrated or not.              *)
MigrateOnReadEvery(result, time) ==
  [i \in 1..Len(result) |->
     [url |-> result[i].url,
      prompt |-> <<"L", "e", "g", "a", "c", "y", " ", "I", "m", "a", "g", "e">>,
      timestamp |-> time]]

(* getHistoryFromDB, the onsuccess branch: migrate a legacy flat list.     *)
MigrateOnRead(result, time) ==
  IF Len(result) > 0 /\ IsString(result[1])
    THEN [i \in 1..Len(result) |->
            [url |-> result[i].url,
             prompt |-> <<"L", "e", "g", "a", "c", "y", " ", "I", "m", "a", "g", "e">>,
             timestamp |-> time]]
    ELSE result

(* How a call of the store ends: the request succeeds; initDB rejects      *)
(* (awaited inside try); the request fires onerror; db.transaction or      *)
(* objectStore throws inside the executor of the returned promise.         *)
LoadOutcomes == {"ok", "openFailed", "readError", "transactionThrew"}
SaveOutcomes == {"ok", "openFailed", "transactionError", "transactionThrew"}

(* getHistoryFromDB: the promise it returns.  The catch covers the awaited  *)
(* initDB only: the promise made by `return new Promise(...)` is not        *)
(* awaited inside the try, so a throw in its executor rejects the call.    *)
GetHistoryFromDB(outcome, stored, time) ==
  CASE outcome = "ok" -> [rejected |-> FALSE, value |-> MigrateOnRead(stored, time)]
    [] outcome = "openFailed" -> [rejected |-> FALSE, value |-> <<>>]
    [] outcome = "readError" -> [rejected |-> FALSE, value |-> <<>>]
    [] outcome = "transactionThrew" -> [rejected |-> TRUE, value |-> <<>>]

(* saveHistoryToDB: whether the promise it returns is rejected.  Only the   *)
(* awaited initDB is inside the catch; tx.onerror rejects the returned     *)
(* promise, and so does a throw in its executor.                           *)
SaveRejects(outcome) == outcome \in {"transactionError", "transactionThrew"}

(* A save effect that skips its save while a store operation is            *)
(* outstanding.                                                            *)
SaveEffectWhenIdle(loaded, items, ops) ==
  IF loaded /\ ops = <<>> THEN Append(ops, [op |-> "put", items |-> items]) ELSE ops

(* A save effect that does not wait for the initial load.                  *)
SaveEffectUnguarded(loaded, items, ops) ==
  Append(ops, [op |-> "put", items |-> items])

(* The save effect: if (isHistoryLoaded) saveHistoryToDB(history).  It runs *)
(* after a render in which history or isHistoryLoaded changed.             *)
SaveEffect(loaded, items, ops) ==
  IF loaded THEN Append(ops, [op |-> "put", items |-> items]) ELSE ops

(* Room in the queue of store operations for k more.                       *)
DbRoom(k) == Len(dbOps) + k <= MaxDbOps

(* The state after the component is constructed and mounted; `limit` is the *)
(* number of gestures the user makes in the behaviour.                     *)
Opened(limit, stores) ==
  /\ prompt = <<>> /\ image = Null /\ previewImage = Null
  /\ history = <<>> /\ isHistoryLoaded = FALSE /\ uploadedImages = <<>>
  /\ resolution = "1K" /\ aspectRatio = "1:1"
  /\ loading = FALSE /\ error = Null
  /\ isEditSidebarOpen = FALSE /\ editingImage = Null
  /\ editPrompt = <<>> /\ isEditing = FALSE
  /\ showClearDialog = FALSE /\ showDeleteDialog = FALSE /\ imageToDelete = Null
  /\ showWarningToast = FALSE /\ warningMsg = "" /\ timers = {}
  /\ genCalls = {} /\ editCalls = {} /\ uploadJobs = <<>>
  /\ db \in stores /\ dbOps = <<>>
  /\ now = 0 /\ nreq = 0 /\ gestures = limit
  /\ results = <<>>
  /\ nodes = InitialNodes /\ edges = InitialEdges /\ wfCalls = {}
  /\ unhandled = {}
  /\ shortcutPreview = Null

(* The page as mounted; no call of the generation client is followed.      *)
MountedOn(limit, stores) ==
  /\ Opened(limit, stores)
  /\ call = Null /\ request = Null

Mounted(limit) == MountedOn(limit, StoredAtStart)

Init == Mounted(MaxGestures)

(* One gesture of the user.                                                *)
Gesture == gestures > 0 /\ gestures' = gestures - 1

(* Date.now() advances.  The clock is read only after an await (the read   *)
(* of the store, a remote call), so it is advanced while one is pending.   *)
Tick ==
  /\ now < MaxTime
  /\ ~isHistoryLoaded \/ genCalls # {} \/ editCalls # {}
  /\ now' = now + 1
  /\ UNCHANGED <<clientVars, pipeVars, unhandled, uploadJobs, prompt, image, previewImage, history, isHistoryLoaded,
                 uploadedImages, resolution, aspectRatio, loading, error,
                 isEditSidebarOpen, editingImage, editPrompt, isEditing,
                 showClearDialog, showDeleteDialog, imageToDelete,
                 showWarningToast, warningMsg, genCalls, editCalls, timers,
                 db, dbOps, nreq, gestures, results>> /\ ShortcutClosure

(* load(): the continuation after `await getHistoryFromDB()`.              *)
Load ==
  /\ ~isHistoryLoaded
  /\ "load" \notin unhandled
  /\ \E outcome \in LoadOutcomes :
       LET got == GetHistoryFromDB(outcome, db, now)
           savedItems == got.value
           h == IF Len(savedItems) > 0 THEN SliceTo(savedItems, HistoryLimit)
                                        ELSE history
       IN IF got.rejected
            THEN /\ unhandled' = unhandled \cup {"load"}
                 /\ UNCHANGED <<history, isHistoryLoaded, dbOps>>
            ELSE /\ history' = h
                 /\ isHistoryLoaded' = TRUE
                 /\ DbRoom(1)
                 /\ dbOps' = SaveEffect(TRUE, h, dbOps)
                 /\ UNCHANGED unhandled
  /\ UNCHANGED <<clientVars, pipeVars, uploadJobs, prompt, image, previewImage, uploadedImages, resolution,
                 aspectRatio, loading, error, isEditSidebarOpen, editingImage,
                 editPrompt, isEditing, showClearDialog, showDeleteDialog,
                 imageToDelete, showWarningToast, warningMsg, genCalls,
                 editCalls, timers, db, now, nreq, gestures, results>> /\ ShortcutClosure

(* ------------------------- Main Studio Controller --------------------- *)

(* The loading effect (useEffect on [loading]) after a render in which      *)
(* loading changed: arm the 30 s "still working" timer, or hide the toast   *)
(* and clear that timer.                                                    *)
LoadingEffectTimers(was, is) ==
  IF was = is THEN timers
  ELSE IF is THEN timers \cup {"busy"} ELSE timers \ {"busy"}

LoadingEffectToast(was, is) ==
  IF was # is /\ ~is THEN FALSE ELSE showWarningToast

(* A button that shows its spinner and stays clickable.                    *)
ButtonOffIgnoringLoading(disabled, isLoading) == disabled

(* <button disabled={disabled || isLoading}> of Button and RainbowButton    *)
ButtonOff(disabled, isLoading) == disabled \/ isLoading

(* A prepend that forgets the slice.                                       *)
GenerateHistoryUnbounded(newImage, prev) == <<newImage>> \o prev

(* An append at the tail instead of a prepend at the head.                 *)
GenerateHistoryAtTail(newImage, prev) ==
  SliceTo(prev \o <<newImage>>, HistoryLimit)

(* [newImage, ...prev].slice(0, 10) of handleGenerate                      *)
GenerateHistory(newImage, prev) == SliceTo(<<newImage>> \o prev, HistoryLimit)

(* [newImage, ...prev].slice(0, 10) of executeEdit                         *)
EditHistory(newImage, prev) == SliceTo(<<newImage>> \o prev, HistoryLimit)

(* handleGenerate up to its await: the guard, the flags, the dispatch.     *)
HandleGenerate ==
  IF ~Truthy(Trim(prompt)) THEN UNCHANGED vars
  ELSE
    /\ Gesture
    /\ nreq' = nreq + 1
    /\ loading' = TRUE
    /\ error' = Null
    /\ genCalls' = genCalls \cup
         {[id |-> nreq + 1, prompt |-> prompt,
           imagesToUse |-> [i \in 1..Len(uploadedImages) |-> uploadedImages[i].url],
           resolution |-> resolution, aspectRatio |-> aspectRatio]}
    /\ timers' = LoadingEffectTimers(loading, TRUE)
    /\ UNCHANGED <<clientVars, pipeVars, unhandled, uploadJobs, formVars, sessionVars, dialogVars, storeVars,
                   image, previewImage, history, isHistoryLoaded, editCalls,
                   showWarningToast, warningMsg, now, results>> /\ ShortcutClosure

(* disabled={!prompt.trim() || loading} isLoading={loading} of the         *)
(* generate button; RainbowButton disables on disabled || isLoading.       *)
GenerateButtonDisabled == ButtonOff(~Truthy(Trim(prompt)) \/ loading, loading)

(* A click on the generate button.                                         *)
ClickGenerate ==
  /\ ~GenerateButtonDisabled
  /\ HandleGenerate

(* handleGenerate after its await resolved with an image.                  *)
GenerateSuccess ==
  \E c \in genCalls :
    LET newImage == [url |-> <<"img", c.id>>, prompt |-> c.prompt, timestamp |-> now]
        h == GenerateHistory(newImage, history)
    IN /\ image' = newImage
       /\ history' = h
       /\ results' = Append(results, newImage)
       /\ loading' = FALSE
       /\ genCalls' = genCalls \ {c}
       /\ timers' = LoadingEffectTimers(loading, FALSE)
       /\ showWarningToast' = LoadingEffectToast(loading, FALSE)
       /\ isHistoryLoaded => DbRoom(1)
       /\ dbOps' = SaveEffect(isHistoryLoaded, h, dbOps)
       /\ UNCHANGED <<clientVars, pipeVars, unhandled, uploadJobs, formVars, sessionVars, dialogVars, previewImage,
                      isHistoryLoaded, error, warningMsg, editCalls, db,
                      now, nreq, gestures>> /\ ShortcutClosure

(* A catch that shows the message as it came, empty or not.                *)
ErrorMessageAsThrown(msg, fallback) == msg

(* err.message || fallback *)
ErrorMessage(msg, fallback) == IF msg # "" THEN msg ELSE fallback

(* handleGenerate after its await rejected: catch, then finally.           *)
GenerateFailure ==
  \E c \in genCalls, msg \in ErrMessages :
    /\ error' = [msg |-> ErrorMessage(msg, T("errorGen"))]
    /\ loading' = FALSE
    /\ genCalls' = genCalls \ {c}
    /\ timers' = LoadingEffectTimers(loading, FALSE)
    /\ showWarningToast' = LoadingEffectToast(loading, FALSE)
    /\ UNCHANGED <<clientVars, pipeVars, unhandled, uploadJobs, formVars, sessionVars, dialogVars, storeVars, image,
                   previewImage, history, isHistoryLoaded, warningMsg,
                   editCalls, boundVars>> /\ ShortcutClosure

(* --------------------- Edit Session State Machine --------------------- *)

(* executeEdit up to its await, as the closure of a render that saw the    *)
(* preview seen.                                                           *)
ExecuteEditSeeing(seen) ==
  IF ~Truthy(Trim(editPrompt)) \/ editingImage = Null THEN UNCHANGED vars
  ELSE
    /\ Gesture
    /\ nreq' = nreq + 1
    /\ isEditing' = TRUE
    /\ error' = Null
    /\ editCalls' = editCalls \cup
         {[id |-> nreq + 1, editPrompt |-> editPrompt,
           editingImage |-> editingImage, previewImage |-> seen]}
    /\ UNCHANGED <<clientVars, pipeVars, unhandled, uploadJobs, formVars, dialogVars, toastVars, storeVars, image,
                   previewImage, history, isHistoryLoaded, loading,
                   isEditSidebarOpen, editingImage, editPrompt, genCalls,
                   now, results>> /\ ShortcutClosure

(* executeEdit of the current render, which the start-edit button calls.   *)
ExecuteEdit == ExecuteEditSeeing(previewImage)

(* The start-edit button: rendered when editingImage is set, with          *)
(* disabled={!editPrompt.trim()} isLoading={isEditing}; Button disables on *)
(* disabled || isLoading.                                                  *)
EditButtonDisabled == ButtonOff(~Truthy(Trim(editPrompt)), isEditing)

ClickStartEdit ==
  /\ editingImage # Null
  /\ ~EditButtonDisabled
  /\ ExecuteEdit

(* An edit that stays in Editing when the call was rejected.               *)
EditingAfterFailureOnly(ok) == ~ok

(* finally { setIsEditing(false) } of executeEdit                          *)
EditingAfterSettle(ok) == FALSE

(* A reset of the main page that keeps the staged uploads.                 *)
ResetMainPageKeepingUploads ==
  /\ prompt' = <<>>
  /\ resolution' = "1K"
  /\ aspectRatio' = "1:1"
  /\ uploadedImages' = uploadedImages
  /\ image' = Null
  /\ editPrompt' = <<>>

(* executeEdit, "1. Reset Main Page State" and the clearing of editPrompt. *)
ResetMainPage ==
  /\ prompt' = <<>>
  /\ resolution' = "1K"
  /\ aspectRatio' = "1:1"
  /\ uploadedImages' = <<>>
  /\ image' = Null
  /\ editPrompt' = <<>>

(* executeEdit after its await resolved with an image.                     *)
EditSuccess ==
  \E c \in editCalls :
    LET newImage == [url |-> <<"img", c.id>>, prompt |-> EditPrefix \o c.editPrompt,
                     timestamp |-> now]
        h == EditHistory(newImage, history)
    IN /\ ResetMainPage
       /\ history' = h
       /\ editingImage' = newImage
       /\ previewImage' = IF c.previewImage # Null THEN newImage ELSE previewImage
       /\ isEditing' = EditingAfterSettle(TRUE)
       /\ editCalls' = editCalls \ {c}
       /\ isHistoryLoaded => DbRoom(1)
       /\ dbOps' = SaveEffect(isHistoryLoaded, h, dbOps)
       /\ results' = Append(results, newImage)
       /\ UNCHANGED <<clientVars, pipeVars, unhandled, uploadJobs, dialogVars, toastVars, isHistoryLoaded, loading,
                      error, isEditSidebarOpen, genCalls, db, now, nreq, gestures>> /\ ShortcutClosure

(* executeEdit after its await rejected: catch, then finally.              *)
EditFailure ==
  \E c \in editCalls, msg \in ErrMessages :
    /\ error' = [msg |-> IF msg # "" THEN msg ELSE T("errorGen")]
    /\ isEditing' = EditingAfterSettle(FALSE)
    /\ editCalls' = editCalls \ {c}
    /\ UNCHANGED <<clientVars, pipeVars, unhandled, uploadJobs, formVars, dialogVars, toastVars, storeVars, image,
                   previewImage, history, isHistoryLoaded, loading,
                   isEditSidebarOpen, editingImage, editPrompt, genCalls,
                   boundVars>> /\ ShortcutClosure

(* A shortcut that does not look at the loading flag.                      *)
ShortcutMayGenerateAlways == Truthy(Trim(prompt))

(* prompt.trim() && !loading of the shortcut handler                       *)
ShortcutMayGenerate == Truthy(Trim(prompt)) /\ ~loading

(* editPrompt.trim() && editingImage && !isEditing of the shortcut handler *)
ShortcutMayEdit == Truthy(Trim(editPrompt)) /\ editingImage # Null /\ ~isEditing

(* The Ctrl+Enter / Cmd+Enter shortcut.                                    *)
CtrlEnter ==
  IF isEditSidebarOpen
    THEN IF ShortcutMayEdit THEN ExecuteEditSeeing(shortcutPreview)
         ELSE UNCHANGED vars
    ELSE IF ShortcutMayGenerate THEN HandleGenerate ELSE UNCHANGED vars

(* An openFor that keeps the working prompt of the session.                *)
HandleEditKeepingPrompt(img) ==
  /\ Gesture
  /\ editingImage' = img
  /\ editPrompt' = editPrompt
  /\ isEditSidebarOpen' = TRUE
  /\ UNCHANGED <<clientVars, pipeVars, unhandled, formVars, dialogVars, toastVars, storeVars, image,
                 previewImage, history, isHistoryLoaded, loading, error,
                 isEditing, genCalls, editCalls, uploadJobs, now, nreq, results>> /\ ShortcutClosure

(* handleEdit(img): open the edit sidebar on an image (openFor).            *)
HandleEdit(img) ==
  /\ Gesture
  /\ editingImage' = img
  /\ editPrompt' = <<>>
  /\ isEditSidebarOpen' = TRUE
  /\ UNCHANGED <<clientVars, pipeVars, unhandled, formVars, dialogVars, toastVars, storeVars, image,
                 previewImage, history, isHistoryLoaded, loading, error,
                 isEditing, genCalls, editCalls, uploadJobs, now, nreq, results>> /\ ShortcutClosure

(* The pencil button of a history tile.                                    *)
ClickHistoryEdit ==
  \E i \in Tiles : HandleEdit(history[i])

(* The edit button of the full-screen preview:                             *)
(* disabled={isEditing || isEditSidebarOpen}.                              *)
ClickPreviewEdit ==
  /\ previewImage # Null
  /\ ~(isEditing \/ isEditSidebarOpen)
  /\ HandleEdit(previewImage)

(* A close request that closes the sidebar whatever the session does.      *)
AttemptCloseSidebarUnguarded ==
  /\ Gesture
  /\ isEditSidebarOpen' = FALSE
  /\ UNCHANGED <<clientVars, pipeVars, unhandled, formVars, dialogVars, toastVars, storeVars, image,
                 previewImage, history, isHistoryLoaded, loading, error,
                 editingImage, editPrompt, isEditing, genCalls,
                 editCalls, uploadJobs, now, nreq, results>> /\ ShortcutClosure

(* attemptCloseSidebar (requestClose).                                     *)
AttemptCloseSidebar ==
  /\ Gesture
  /\ IF isEditing
         THEN /\ warningMsg' = T("waitEditCompletion")
              /\ showWarningToast' = TRUE
              /\ timers' = timers \cup {"closeHide"}
              /\ UNCHANGED <<clientVars, pipeVars, unhandled, formVars, sessionVars, dialogVars, storeVars, image,
                             previewImage, history, isHistoryLoaded, loading, error,
                             genCalls, editCalls, uploadJobs, now, nreq, results>> /\ ShortcutClosure
         ELSE /\ isEditSidebarOpen' = FALSE
              /\ UNCHANGED <<clientVars, pipeVars, unhandled, formVars, dialogVars, toastVars, storeVars, image,
                             previewImage, history, isHistoryLoaded, loading, error,
                             editingImage, editPrompt, isEditing, genCalls,
                             editCalls, uploadJobs, now, nreq, results>> /\ ShortcutClosure

(* The X button in the sidebar header (always in the document).            *)
ClickSidebarClose == AttemptCloseSidebar

(* The backdrop behind the sidebar, rendered while the sidebar is open.    *)
ClickSidebarBackdrop ==
  /\ isEditSidebarOpen
  /\ AttemptCloseSidebar

(* setPreviewImage(null)                                                   *)
ClosePreview ==
  /\ Gesture
  /\ previewImage' = Null
  /\ UNCHANGED <<clientVars, pipeVars, unhandled, formVars, sessionVars, dialogVars, toastVars, storeVars,
                 image, history, isHistoryLoaded, loading, error, genCalls,
                 editCalls, uploadJobs, now, nreq, results>> /\ ShortcutClosure

(* The Escape key.                                                         *)
PressEscape ==
  IF isEditSidebarOpen THEN AttemptCloseSidebar
  ELSE IF previewImage # Null THEN ClosePreview
  ELSE UNCHANGED vars

(* A click on the preview modal (outside the image) or on its X button,    *)
(* both effective only while the sidebar is closed.                        *)
ClickPreviewClose ==
  /\ previewImage # Null
  /\ ~isEditSidebarOpen
  /\ ClosePreview

(* handlePreview(img): from the result panel (shown when not loading) or a *)
(* history tile.                                                           *)
HandlePreview ==
  /\ Gesture
  /\ \E img \in {history[i] : i \in Tiles}
                \cup (IF image # Null /\ ~loading THEN {image} ELSE {}) :
       /\ previewImage' = img
       /\ UNCHANGED <<clientVars, pipeVars, unhandled, formVars, sessionVars, dialogVars, toastVars, storeVars,
                      image, history, isHistoryLoaded, loading, error, genCalls,
                      editCalls, uploadJobs, now, nreq, results>> /\ ShortcutClosure

(* The 5 s timer of attemptCloseSidebar: hide the warning, clear its text.  *)
CloseWarningTimeout ==
  /\ "closeHide" \in timers
  /\ showWarningToast' = FALSE
  /\ warningMsg' = ""
  /\ \E more \in BOOLEAN :
       timers' = IF more THEN timers ELSE timers \ {"closeHide"}
  /\ UNCHANGED <<clientVars, pipeVars, unhandled, formVars, sessionVars, dialogVars, storeVars, image,
                 previewImage, history, isHistoryLoaded, loading, error,
                 genCalls, editCalls, uploadJobs, boundVars>> /\ ShortcutClosure

(* The 30 s timer of the loading effect: show the "still working" warning.  *)
BusyTimeout ==
  /\ "busy" \in timers
  /\ showWarningToast' = TRUE
  /\ timers' = (timers \ {"busy"}) \cup {"busyHide"}
  /\ UNCHANGED <<clientVars, pipeVars, unhandled, formVars, sessionVars, dialogVars, storeVars, image,
                 previewImage, history, isHistoryLoaded, loading, error,
                 warningMsg, genCalls, editCalls, uploadJobs, boundVars>> /\ ShortcutClosure

(* The 5 s timer started by the 30 s timer: hide the warning.               *)
BusyHideTimeout ==
  /\ "busyHide" \in timers
  /\ showWarningToast' = FALSE
  /\ timers' = timers \ {"busyHide"}
  /\ UNCHANGED <<clientVars, pipeVars, unhandled, formVars, sessionVars, dialogVars, storeVars, image,
                 previewImage, history, isHistoryLoaded, loading, error,
                 warningMsg, genCalls, editCalls, uploadJobs, boundVars>> /\ ShortcutClosure

(* ------------------------------ form inputs --------------------------- *)

SetPrompt ==
  /\ Gesture
  /\ \E p \in Prompts : prompt' = p /\ p # prompt
  /\ UNCHANGED <<clientVars, pipeVars, unhandled, sessionVars, dialogVars, toastVars, storeVars, image,
                 previewImage, history, isHistoryLoaded, uploadedImages,
                 resolution, aspectRatio, loading, error, genCalls, editCalls,
                 uploadJobs, now, nreq, results>> /\ ShortcutClosure

(* The textarea of the sidebar, rendered when editingImage is set.          *)
SetEditPrompt ==
  /\ Gesture
  /\ editingImage # Null
  /\ \E p \in Prompts : editPrompt' = p /\ p # editPrompt
  /\ UNCHANGED <<clientVars, pipeVars, unhandled, formVars, dialogVars, toastVars, storeVars, image,
                 previewImage, history, isHistoryLoaded, loading, error,
                 isEditSidebarOpen, editingImage, isEditing, genCalls,
                 editCalls, uploadJobs, now, nreq, results>> /\ ShortcutClosure

SetResolution ==
  /\ Gesture
  /\ \E r \in PressedResolutions : resolution' = r /\ r # resolution
  /\ UNCHANGED <<clientVars, pipeVars, unhandled, sessionVars, dialogVars, toastVars, storeVars, image,
                 previewImage, history, isHistoryLoaded, prompt, uploadedImages,
                 aspectRatio, loading, error, genCalls, editCalls, uploadJobs,
                 now, nreq, results>> /\ ShortcutClosure

SetAspectRatio ==
  /\ Gesture
  /\ \E a \in PressedAspectRatios : aspectRatio' = a /\ a # aspectRatio
  /\ UNCHANGED <<clientVars, pipeVars, unhandled, sessionVars, dialogVars, toastVars, storeVars, image,
                 previewImage, history, isHistoryLoaded, prompt, uploadedImages,
                 resolution, loading, error, genCalls, editCalls, uploadJobs,
                 now, nreq, results>> /\ ShortcutClosure

(* ------------------------- upload staging list ------------------------ *)

(* Files a user may pick: id, and whether the file exceeds 10 MB.          *)
File(i) == [id |-> i, tooLarge |-> FALSE]
BigFile == [id |-> 0, tooLarge |-> TRUE]
FileSelections == { <<File(1)>>, <<File(2), File(3)>>, <<BigFile, File(1)>> }

(* The staged entry of a compressed file.                                  *)
Staged(f) == [url |-> <<"up", f.id>>, size |-> f.id]

(* The loop of handleFileChange skips oversized files without suspending.  *)
RECURSIVE SkipTooLarge(_)
SkipTooLarge(todo) ==
  IF todo # <<>> /\ Head(todo).tooLarge THEN SkipTooLarge(Tail(todo)) ELSE todo

(* A staging of the processed files that forgets the slice.               *)
StageResultsUnsliced(prev, processedResults) ==
  IF Len(processedResults) > 0 THEN prev \o processedResults ELSE prev

(* setUploadedImages(prev => [...prev, ...processedResults].slice(0, 2))   *)
StageResults(prev, processedResults) ==
  IF Len(processedResults) > 0
    THEN SliceTo(prev \o processedResults, UploadLimit)
    ELSE prev

(* handleFileChange from a loop position on: run to the next await         *)
(* (compressImage of the head of `todo`) or to the end of the handler.     *)
(* `others` are the other suspended runs, `err` the error set so far.      *)
RunFileLoop(todo, done, others, err) ==
  LET rest == SkipTooLarge(todo)
      err2 == IF Len(rest) < Len(todo) THEN [msg |-> T("fileTooLarge")] ELSE err
  IN /\ error' = err2
     /\ IF rest = <<>>
          THEN /\ uploadedImages' = StageResults(uploadedImages, done)
               /\ uploadJobs' = others
          ELSE /\ uploadedImages' = uploadedImages
               /\ uploadJobs' = Append(others, [todo |-> rest, done |-> done])

(* handleFileChange up to its first await.                                 *)
HandleFileChange ==
  /\ Gesture
  /\ \E files \in FileSelections :
       IF Len(uploadedImages) >= UploadLimit
         THEN UNCHANGED <<uploadedImages, uploadJobs, error>>
         ELSE RunFileLoop(SliceTo(files, UploadLimit - Len(uploadedImages)),
                          <<>>, uploadJobs, error)
  /\ UNCHANGED <<clientVars, pipeVars, unhandled, sessionVars, dialogVars, toastVars, storeVars, image,
                 previewImage, history, isHistoryLoaded, prompt, resolution,
                 aspectRatio, loading, genCalls, editCalls, now, nreq, results>> /\ ShortcutClosure

(* handleFileChange after `await compressImage(file)` settled.             *)
CompressDone ==
  \E j \in 1..Len(uploadJobs), ok \in BOOLEAN :
    LET job == uploadJobs[j]
        others == [k \in 1..(Len(uploadJobs) - 1) |->
                     IF k < j THEN uploadJobs[k] ELSE uploadJobs[k + 1]]
        done == IF ok THEN Append(job.done, Staged(Head(job.todo))) ELSE job.done
        err == IF ok THEN error ELSE [msg |-> "Image processing failed"]
    IN /\ RunFileLoop(Tail(job.todo), done, others, err)
       /\ UNCHANGED <<clientVars, pipeVars, unhandled, sessionVars, dialogVars, toastVars, storeVars, image,
                      previewImage, history, isHistoryLoaded, prompt,
                      resolution, aspectRatio, loading, genCalls, editCalls,
                      boundVars>> /\ ShortcutClosure

(* handleRemoveImage(index): the X of a staged thumbnail.                  *)
HandleRemoveImage ==
  /\ Gesture
  /\ \E index \in 1..Len(uploadedImages) :
       /\ uploadedImages' = [k \in 1..(Len(uploadedImages) - 1) |->
                               IF k < index THEN uploadedImages[k]
                                            ELSE uploadedImages[k + 1]]
       /\ UNCHANGED <<clientVars, pipeVars, unhandled, sessionVars, dialogVars, toastVars, storeVars, image,
                      previewImage, history, isHistoryLoaded, prompt, resolution,
                      aspectRatio, loading, error, genCalls, editCalls,
                      uploadJobs, now, nreq, results>> /\ ShortcutClosure

(* ------------------------ delete and clear dialogs -------------------- *)

(* handleClearClick: the trash button of the history section, which is     *)
(* rendered while the history is not empty.                                *)
HandleClearClick ==
  /\ Gesture
  /\ Len(history) > 0
  /\ showClearDialog' = TRUE
  /\ UNCHANGED <<clientVars, pipeVars, unhandled, formVars, sessionVars, toastVars, storeVars, image,
                 previewImage, history, isHistoryLoaded, loading, error,
                 showDeleteDialog, imageToDelete, genCalls, editCalls,
                 uploadJobs, now, nreq, results>> /\ ShortcutClosure

(* Confirm of the clear dialog: confirmClearHistory(), onOpenChange(false). *)
(* The store-level clear opens its connection before the save effect does. *)
ConfirmClear ==
  /\ Gesture
  /\ showClearDialog
  /\ history' = <<>>
  /\ results' = <<>>
  /\ DbRoom(IF isHistoryLoaded THEN 2 ELSE 1)
  /\ dbOps' = SaveEffect(isHistoryLoaded, <<>>, Append(dbOps, [op |-> "clear"]))
  /\ showClearDialog' = FALSE
  /\ UNCHANGED <<clientVars, pipeVars, unhandled, formVars, sessionVars, toastVars, image, previewImage,
                 isHistoryLoaded, loading, error, showDeleteDialog,
                 imageToDelete, genCalls, editCalls, uploadJobs, db, now, nreq>> /\ ShortcutClosure

(* Cancel or backdrop of the clear dialog: onOpenChange(false).             *)
CancelClear ==
  /\ Gesture
  /\ showClearDialog
  /\ showClearDialog' = FALSE
  /\ UNCHANGED <<clientVars, pipeVars, unhandled, formVars, sessionVars, toastVars, storeVars, image,
                 previewImage, history, isHistoryLoaded, loading, error,
                 showDeleteDialog, imageToDelete, genCalls, editCalls,
                 uploadJobs, now, nreq, results>> /\ ShortcutClosure

(* handleDeleteClick(img): the trash button of a history tile.             *)
HandleDeleteClick ==
  /\ Gesture
  /\ \E i \in Tiles :
       /\ imageToDelete' = history[i]
       /\ showDeleteDialog' = TRUE
       /\ UNCHANGED <<clientVars, pipeVars, unhandled, formVars, sessionVars, toastVars, storeVars, image,
                      previewImage, history, isHistoryLoaded, loading, error,
                      showClearDialog, genCalls, editCalls, uploadJobs, now, nreq, results>> /\ ShortcutClosure

(* A filter that takes the url for the identity of an entry.               *)
DeleteFilterByUrl(prev, target) ==
  SelectSeq(prev, LAMBDA item : item.url # target.url)

(* prev.filter(item => item.timestamp !== imageToDelete.timestamp)         *)
DeleteFilter(prev, target) ==
  SelectSeq(prev, LAMBDA item : item.timestamp # target.timestamp)

(* Confirm of the delete dialog: confirmDelete(), onOpenChange(false).      *)
ConfirmDelete ==
  /\ Gesture
  /\ showDeleteDialog
  /\ showDeleteDialog' = FALSE
  /\ IF imageToDelete = Null
       THEN UNCHANGED <<history, imageToDelete, dbOps, results>>
       ELSE LET h == DeleteFilter(history, imageToDelete)
            IN /\ history' = h
               /\ results' = <<>>
               /\ imageToDelete' = Null
               /\ isHistoryLoaded => DbRoom(1)
               /\ dbOps' = SaveEffect(isHistoryLoaded, h, dbOps)
  /\ UNCHANGED <<clientVars, pipeVars, unhandled, formVars, sessionVars, toastVars, image, previewImage,
                 isHistoryLoaded, loading, error, showClearDialog, genCalls,
                 editCalls, uploadJobs, db, now, nreq>> /\ ShortcutClosure

(* A Cancel button that runs onConfirm before it closes the dialog.        *)
CancelDeleteConfirming == ConfirmDelete

(* Cancel or backdrop of the delete dialog: onOpenChange(false).            *)
CancelDelete ==
  /\ Gesture
  /\ showDeleteDialog
  /\ showDeleteDialog' = FALSE
  /\ UNCHANGED <<clientVars, pipeVars, unhandled, formVars, sessionVars, toastVars, storeVars, image,
                 previewImage, history, isHistoryLoaded, loading, error,
                 showClearDialog, imageToDelete, genCalls, editCalls,
                 uploadJobs, now, nreq, results>> /\ ShortcutClosure

(* The oldest queued store operation settles: a put of saveHistoryToDB or  *)
(* the clear of confirmClearHistory (whose try covers its transaction).    *)
(* The read of the initial load was requested first, so it is served first. *)
StoreOpDone ==
  /\ isHistoryLoaded
  /\ dbOps # <<>>
  /\ \E outcome \in SaveOutcomes :
       /\ db' = IF outcome # "ok" THEN db
                ELSE IF Head(dbOps).op = "put" THEN Head(dbOps).items ELSE <<>>
       /\ unhandled' = IF Head(dbOps).op = "put" /\ SaveRejects(outcome)
                          THEN unhandled \cup {"save"} ELSE unhandled
  /\ dbOps' = Tail(dbOps)
  /\ UNCHANGED <<clientVars, pipeVars, formVars, sessionVars, dialogVars, toastVars, image,
                 previewImage, history, isHistoryLoaded, loading, error,
                 genCalls, editCalls, uploadJobs, boundVars>> /\ ShortcutClosure

(* --------------------------- pipeline editor -------------------------- *)

(* { ...node.data, ...newData } *)
MergeData(data, newData) ==
  [k \in DOMAIN data \cup DOMAIN newData |->
     IF k \in DOMAIN newData THEN newData[k] ELSE data[k]]

(* updateNodeData(id, newData) as the updater it hands to setNodes.         *)
UpdateNodeData(nds, id, newData) ==
  [n \in DOMAIN nds |-> IF n = id THEN MergeData(nds[n], newData) ELSE nds[n]]

(* The type of every node, which is all a run reads of the other nodes     *)
(* after its await.                                                        *)
NodeTypes(nds) == [n \in DOMAIN nds |-> nds[n].type]

(* The indices of the edges into a node, and out of it.                    *)
EdgesInto(eds, id) == { i \in 1..Len(eds) : eds[i].target = id }
EdgesFrom(eds, id) == { i \in 1..Len(eds) : eds[i].source = id }

(* connectedEdges.forEach of runGenerator: the prompt of the last connected *)
(* prompt node, '' when there is none.                                     *)
ConnectedPrompt(nds, eds, id) ==
  LET from == { i \in EdgesInto(eds, id) :
                  /\ eds[i].source \in DOMAIN nds
                  /\ nds[eds[i].source].type = "promptNode" }
  IN IF from = {} THEN <<>>
     ELSE nds[eds[CHOOSE i \in from : \A j \in from : j <= i].source].prompt

(* connectedEdges.forEach of runGenerator over the first k edges: the      *)
(* images of the connected image nodes, one after the other in edge order. *)
RECURSIVE CollectImages(_, _, _, _)
CollectImages(nds, eds, id, k) ==
  IF k = 0 THEN <<>>
  ELSE LET rest == CollectImages(nds, eds, id, k - 1)
           e == eds[k]
       IN IF /\ e.target = id
             /\ e.source \in DOMAIN nds
             /\ nds[e.source].type = "imageNode"
            THEN rest \o nds[e.source].images
            ELSE rest

(* inputImages of runGenerator after the loop over the connected edges.    *)
ConnectedImages(nds, eds, id) == CollectImages(nds, eds, id, Len(eds))

(* A run that leaves its spinner on when the call was rejected.            *)
LoadingAfterFailureOnly(ok) == ~ok

(* finally { updateNodeData(id, { loading: false }) } of a pipeline run     *)
LoadingAfterSettle(ok) == FALSE

(* A run button switched off by the node's error, not by its loading flag. *)
RunButtonDisabledOnError(id) == nodes[id].error # Null

(* A run button that stays clickable while its node is loading.            *)
RunButtonNeverDisabled(id) == FALSE

(* The run button of a node: <Button isLoading={data.loading}>.            *)
RunButtonDisabled(id) == ButtonOff(FALSE, nodes[id].loading)

(* The prompt node's textarea.                                             *)
SetNodePrompt ==
  /\ Gesture
  /\ \E p \in NodePrompts :
       /\ p # nodes["1"].prompt
       /\ nodes' = UpdateNodeData(nodes, "1", [prompt |-> p])
  /\ UNCHANGED <<clientVars, studioVars, nreq, edges, wfCalls>>

(* The options of the generator node's resolution select and the ratio     *)
(* buttons it renders; the ones a behaviour presses.                       *)
NodeResolutions == {"1K", "2K", "4K"}
NodeAspectRatios == {"1:1", "2:3", "3:4", "4:3", "9:16", "16:9"}
SelectedNodeResolutions == {"1K", "4K"}
PressedNodeAspectRatios == {"1:1", "2:3"}

(* data.onResolutionChange(v) of the generator node: updateNodeData.        *)
SetNodeResolution ==
  /\ Gesture
  /\ \E r \in SelectedNodeResolutions :
       /\ r # nodes["2"].resolution
       /\ nodes' = UpdateNodeData(nodes, "2", [resolution |-> r])
  /\ UNCHANGED <<clientVars, studioVars, nreq, edges, wfCalls>>

(* data.onAspectRatioChange(v) of the generator node: updateNodeData.       *)
SetNodeAspectRatio ==
  /\ Gesture
  /\ \E a \in PressedNodeAspectRatios :
       /\ a # nodes["2"].aspectRatio
       /\ nodes' = UpdateNodeData(nodes, "2", [aspectRatio |-> a])
  /\ UNCHANGED <<clientVars, studioVars, nreq, edges, wfCalls>>

(* A run that hands every collected image to the generation client.       *)
LimitedImagesAll(inputImages) == inputImages

(* const limitedImages = inputImages.slice(0, 1)                            *)
LimitedImages(inputImages) == SliceTo(inputImages, 1)

(* A run that starts its spinner and leaves the node's error standing.     *)
RunStartKeepingError == [loading |-> TRUE]

(* updateNodeData(id, { loading: true, error: null }) of either run.        *)
RunStart == [loading |-> TRUE, error |-> Null]

(* A run that goes on whatever prompt it resolved.                         *)
NoPromptNever(p) == FALSE

(* if (!prompt) of runGenerator *)
NoPrompt(p) == ~Truthy(p)

(* runGenerator up to its await: the fail-fast on an empty prompt, or the  *)
(* dispatch.                                                               *)
RunGenerator ==
  /\ ~RunButtonDisabled("2")
  /\ Gesture
  /\ LET p == ConnectedPrompt(nodes, edges, "2")
         inputImages == ConnectedImages(nodes, edges, "2")
     IN IF NoPrompt(p)
          THEN /\ nodes' = UpdateNodeData(nodes, "2",
                              [error |-> [msg |-> "No prompt provided"]])
               /\ UNCHANGED <<nreq, wfCalls>>
          ELSE /\ nodes' = UpdateNodeData(nodes, "2", RunStart)
               /\ nreq' = nreq + 1
               /\ wfCalls' = wfCalls \cup
                    {[id |-> nreq + 1, node |-> "2", prompt |-> p,
                      images |-> LimitedImages(inputImages),
                      resolution |-> nodes["2"].resolution,
                      aspectRatio |-> nodes["2"].aspectRatio,
                      currentNodes |-> NodeTypes(nodes),
                      currentEdges |-> edges]}
  /\ UNCHANGED <<clientVars, studioVars, edges>>

(* The refine node runGenerator creates under the output node.             *)
NewRefineNode ==
  [type |-> "refineNode", prompt |-> <<>>, loading |-> FALSE,
   error |-> Null, outputImage |-> Null]

(* An output update that carries the image alone.                          *)
OutputDataImageOnly(result, c) == [image |-> result]

(* { image: result, resolution, aspectRatio } with the settings the run    *)
(* read from the generator node before its await.                          *)
OutputData(result, c) ==
  [image |-> result, resolution |-> c.resolution, aspectRatio |-> c.aspectRatio]

(* runGenerator after its await resolved: the output nodes, the generator   *)
(* node, the refine node if the run saw none, then finally.                *)
GeneratorSuccess ==
  \E c \in wfCalls :
    /\ c.node = "2"
    /\ LET result == <<"img", c.id>>
           targets == { c.currentEdges[i].target : i \in EdgesFrom(c.currentEdges, "2") }
           outputs == { n \in targets \cap DOMAIN c.currentNodes :
                          c.currentNodes[n] = "outputNode" }
           n1 == [n \in DOMAIN nodes |->
                    IF n \in outputs
                      THEN MergeData(nodes[n], OutputData(result, c))
                      ELSE nodes[n]]
           n2 == UpdateNodeData(n1, "2", [outputImage |-> result])
           refineNodeExists == "refine-1" \in DOMAIN c.currentNodes
           n3 == IF refineNodeExists THEN n2
                 ELSE [n \in DOMAIN n2 \cup {"refine-1"} |->
                         IF n = "refine-1" THEN NewRefineNode ELSE n2[n]]
       IN /\ nodes' = UpdateNodeData(n3, "2", [loading |-> LoadingAfterSettle(TRUE)])
          /\ edges' = IF refineNodeExists THEN edges
                      ELSE Append(edges, [id |-> "e3-refine", source |-> "3",
                                          target |-> "refine-1",
                                          targetHandle |-> "image-in"])
    /\ wfCalls' = wfCalls \ {c}
    /\ UNCHANGED <<clientVars, studioVars, nreq, gestures>>

(* runGenerator after its await rejected: catch, then finally.             *)
GeneratorFailure ==
  \E c \in wfCalls, msg \in ErrMessages :
    /\ c.node = "2"
    /\ nodes' = UpdateNodeData(nodes, "2",
                  [error |-> [msg |-> IF msg # "" THEN msg ELSE "Generation failed"],
                   loading |-> LoadingAfterSettle(FALSE)])
    /\ wfCalls' = wfCalls \ {c}
    /\ UNCHANGED <<clientVars, studioVars, nreq, gestures, edges>>

(* The image node's file input, shown while the node holds no image: the  *)
(* reader's onloadend hands [reader.result] to data.onChange.              *)
NodeUpload ==
  /\ Gesture
  /\ Len(nodes["img-1"].images) < 1
  /\ \E f \in {1, 2} :
       nodes' = UpdateNodeData(nodes, "img-1", [images |-> << <<"up", f>> >>])
  /\ UNCHANGED <<clientVars, studioVars, nreq, edges, wfCalls>>

(* removeImage(index) of the image node.                                   *)
RemoveNodeImage ==
  /\ Gesture
  /\ \E index \in 1..Len(nodes["img-1"].images) :
       LET images == nodes["img-1"].images
           newImages == [i \in 1..(Len(images) - 1) |->
                           IF i < index THEN images[i] ELSE images[i + 1]]
       IN nodes' = UpdateNodeData(nodes, "img-1", [images |-> newImages])
  /\ UNCHANGED <<clientVars, studioVars, nreq, edges, wfCalls>>

(* The connections a behaviour draws from a source handle to a target      *)
(* handle of the canvas.                                                   *)
DrawnConnections ==
  { [source |-> "img-1", target |-> "2", targetHandle |-> "prompt-in"],
    [source |-> "1", target |-> "refine-1", targetHandle |-> "image-in"],
    [source |-> "3", target |-> "refine-1", targetHandle |-> "image-in"] }

(* addEdge(params, eds) of the canvas library: the edge is appended unless *)
(* one with the same source, target and handles is there already.          *)
AddEdge(params, eds) ==
  IF \E i \in 1..Len(eds) :
       /\ eds[i].source = params.source
       /\ eds[i].target = params.target
       /\ eds[i].targetHandle = params.targetHandle
    THEN eds
    ELSE Append(eds, [id |-> "reactflow__edge-" \o params.source \o "-"
                               \o params.target \o params.targetHandle,
                      source |-> params.source, target |-> params.target,
                      targetHandle |-> params.targetHandle])

(* onConnect(params): setEdges((eds) => addEdge(params, eds)).              *)
OnConnect ==
  /\ Gesture
  /\ \E params \in DrawnConnections :
       /\ params.source \in DOMAIN nodes
       /\ params.target \in DOMAIN nodes
       /\ edges' = AddEdge(params, edges)
  /\ UNCHANGED <<clientVars, studioVars, nreq, nodes, wfCalls>>

(* The edges a behaviour selects and deletes.                              *)
RemovedEdges == {"e3-refine", "eImg-2"}

(* onEdgesChange with a remove change: the canvas library filters the edge *)
(* out of the list.                                                        *)
RemoveEdge ==
  /\ Gesture
  /\ \E i \in 1..Len(edges) :
       /\ edges[i].id \in RemovedEdges
       /\ edges' = [k \in 1..(Len(edges) - 1) |->
                      IF k < i THEN edges[k] ELSE edges[k + 1]]
  /\ UNCHANGED <<clientVars, studioVars, nreq, nodes, wfCalls>>

(* The refine node's textarea.                                             *)
SetRefinePrompt ==
  /\ "refine-1" \in DOMAIN nodes
  /\ Gesture
  /\ \E p \in NodePrompts :
       /\ p # nodes["refine-1"].prompt
       /\ nodes' = UpdateNodeData(nodes, "refine-1", [prompt |-> p])
  /\ UNCHANGED <<clientVars, studioVars, nreq, edges, wfCalls>>

(* inputEdge of runRefineLogic: the first edge into the node.              *)
InputEdge(eds, nodeId) ==
  eds[CHOOSE i \in EdgesInto(eds, nodeId) :
        \A j \in EdgesInto(eds, nodeId) : i <= j]

(* What runRefineLogic throws before its await, Null when it dispatches.   *)
RefineRefusal(nds, eds, nodeId) ==
  IF ~Truthy(nds[nodeId].prompt) THEN [msg |-> "Prompt required"]
  ELSE IF EdgesInto(eds, nodeId) = {} THEN [msg |-> "No input image connected"]
  ELSE LET e == InputEdge(eds, nodeId)
       IN IF e.source \notin DOMAIN nds THEN [msg |-> "Source node not found"]
          ELSE IF nds[e.source].type # "outputNode" \/ nds[e.source].image = Null
            THEN [msg |-> "No image data from source. Run generator first."]
          ELSE Null

(* A refiner that runs with its defaults whatever the source stored.       *)
InheritedDefault(source, key, default) == default

(* if (sourceNode.data[key]) inherited = sourceNode.data[key]              *)
Inherited(source, key, default) ==
  IF key \in DOMAIN source THEN source[key] ELSE default

(* runRefineLogic(nodeId) up to its await: a throw before the await runs   *)
(* catch and finally in the same step.                                     *)
RunRefineLogic ==
  /\ "refine-1" \in DOMAIN nodes
  /\ ~RunButtonDisabled("refine-1")
  /\ Gesture
  /\ LET refusal == RefineRefusal(nodes, edges, "refine-1")
         source == nodes[InputEdge(edges, "refine-1").source]
     IN IF refusal # Null
          THEN /\ nodes' = UpdateNodeData(nodes, "refine-1",
                              [error |-> refusal, loading |-> FALSE])
               /\ UNCHANGED <<nreq, wfCalls>>
          ELSE /\ nodes' = UpdateNodeData(nodes, "refine-1", RunStart)
               /\ nreq' = nreq + 1
               /\ wfCalls' = wfCalls \cup
                    {[id |-> nreq + 1, node |-> "refine-1",
                      prompt |-> nodes["refine-1"].prompt,
                      images |-> <<source.image>>,
                      resolution |-> Inherited(source, "resolution", "1K"),
                      aspectRatio |-> Inherited(source, "aspectRatio", "1:1")]}
  /\ UNCHANGED <<clientVars, studioVars, edges>>

(* runRefineLogic after its await resolved, then finally.                  *)
RefineSuccess ==
  \E c \in wfCalls :
    /\ c.node = "refine-1"
    /\ nodes' = UpdateNodeData(nodes, "refine-1",
                  [outputImage |-> <<"img", c.id>>,
                   loading |-> LoadingAfterSettle(TRUE)])
    /\ wfCalls' = wfCalls \ {c}
    /\ UNCHANGED <<clientVars, studioVars, nreq, gestures, edges>>

(* runRefineLogic after its await rejected: catch, then finally.           *)
RefineFailure ==
  \E c \in wfCalls, msg \in ErrMessages :
    /\ c.node = "refine-1"
    /\ nodes' = UpdateNodeData(nodes, "refine-1",
                  [error |-> [msg |-> msg], loading |-> LoadingAfterSettle(FALSE)])
    /\ wfCalls' = wfCalls \ {c}
    /\ UNCHANGED <<clientVars, studioVars, nreq, gestures, edges>>

(* ------------------------------- claims ------------------------------- *)

(* C1: in every reachable state of the main controller the history list    *)
(* holds at most 10 entries, whatever the order of load, generate success, *)
(* edit success, confirmed delete and confirmed clear.                     *)
C1_HistoryBounded == Len(history) <= HistoryLimit

(* A full history onto which a success was prepended: the oldest stored     *)
(* record fell off the end.                                                *)
C1_Witness ==
  /\ Len(history) = HistoryLimit
  /\ results # <<>>
  /\ history[1] = results[Len(results)]
  /\ history[HistoryLimit] = OldRecord(HistoryLimit - Len(results))

(* C2: once more than ten generate/edit operations have succeeded with no  *)
(* delete or clear in between, the history has exactly ten entries and     *)
(* they are the ten most recently completed results, most recent first.    *)
C2_TenMostRecent ==
  Len(results) > HistoryLimit =>
    /\ Len(history) = HistoryLimit
    /\ \A i \in 1..HistoryLimit : history[i] = results[Len(results) + 1 - i]

(* Eleven operations have succeeded, the last of them an edit.             *)
C2_Witness ==
  /\ Len(results) > HistoryLimit
  /\ Len(results[Len(results)].prompt) > Len(EditPrefix)
  /\ SubSeq(results[Len(results)].prompt, 1, Len(EditPrefix)) = EditPrefix
  /\ \E i \in 1..Len(results) : Len(results[i].prompt) \leq 2

(* A step that issues a save (a put) to the store.                         *)
SaveIssued ==
  /\ Len(dbOps') > Len(dbOps)
  /\ \E i \in (Len(dbOps) + 1)..Len(dbOps') : dbOps'[i].op = "put"

(* C3: no save is issued to the store before the initial load has          *)
(* finished: every step that issues a save ends with the load completed,   *)
(* and while the load is pending no save is queued.                        *)
C3_NoSaveBeforeLoad ==
  [][(SaveIssued => isHistoryLoaded')
     /\ (~isHistoryLoaded' => \A i \in 1..Len(dbOps') : dbOps'[i].op # "put")]_vars

(* A generate succeeded and the history was then deleted from or cleared   *)
(* while the load was still pending, and no save is queued.                *)
C3_Witness ==
  /\ ~isHistoryLoaded
  /\ image # Null
  /\ history = <<>>
  /\ \A i \in 1..Len(dbOps) : dbOps[i].op # "put"

(* A generate invocation: the button, or the shortcut outside the sidebar. *)
GenerateInvoked == ClickGenerate \/ (~isEditSidebarOpen /\ CtrlEnter)

(* C4: single-flight generate: at most one generate call is outstanding,   *)
(* and while loading a generate invocation by the button or the shortcut   *)
(* dispatches no request and changes no state.                             *)
C4_SingleFlightGenerate ==
  /\ [](Cardinality(genCalls) <= 1 /\ (genCalls # {} => loading))
  /\ [][loading => /\ genCalls' \subseteq genCalls
                   /\ (GenerateInvoked => UNCHANGED vars)]_vars

(* A generate call is outstanding and the user can still make a gesture.    *)
C4_Witness ==
  /\ loading
  /\ Cardinality(genCalls) = 1
  /\ Truthy(Trim(prompt))
  /\ ~isEditSidebarOpen
  /\ gestures > 0

(* C5: at most one runEdit call is outstanding; while isEditing no edit    *)
(* call is dispatched; the flag of generate does not guard it.             *)
C5_SingleFlightEdit ==
  /\ [](Cardinality(editCalls) <= 1 /\ (editCalls # {} => isEditing))
  /\ [][isEditing => editCalls' \subseteq editCalls]_vars
  /\ [][(loading /\ ~isEditing /\ ClickStartEdit) =>
          Cardinality(editCalls') = 1 /\ genCalls' = genCalls]_vars

(* A generate call and an edit call outstanding at the same time.          *)
C5_Witness ==
  /\ Cardinality(genCalls) = 1 /\ loading
  /\ Cardinality(editCalls) = 1 /\ isEditing

(* A close request: the X button, the backdrop, or Escape with the sidebar *)
(* open.                                                                   *)
RequestClose ==
  \/ ClickSidebarClose
  \/ ClickSidebarBackdrop
  \/ (isEditSidebarOpen /\ PressEscape)

(* C6: a close request while isEditing leaves the session open and raises  *)
(* the warning; while not editing it closes the session; no step closes    *)
(* the session while isEditing, and only a close request closes it.        *)
C6_EditCloseGuard ==
  [][/\ (isEditing /\ isEditSidebarOpen) => isEditSidebarOpen'
     /\ (RequestClose /\ isEditing) =>
          /\ isEditSidebarOpen' = isEditSidebarOpen
          /\ showWarningToast'
          /\ warningMsg' = T("waitEditCompletion")
     /\ (RequestClose /\ ~isEditing) => ~isEditSidebarOpen'
     /\ (isEditSidebarOpen /\ ~isEditSidebarOpen') => RequestClose]_vars

(* The session is open and editing, and the deflected close request has    *)
(* raised the warning.                                                     *)
C6_Witness ==
  /\ isEditing /\ isEditSidebarOpen
  /\ showWarningToast /\ warningMsg = T("waitEditCompletion")

(* C7: the edit session never stays stuck in Editing: every runEdit that   *)
(* entered Editing is followed by isEditing = false once its remote call   *)
(* completes, on success and on failure alike.                             *)
C7_EditNeverStuck ==
  /\ isEditing ~> ~isEditing
  /\ [][(editCalls' # editCalls /\ editCalls' \subseteq editCalls) => ~isEditing']_vars
  /\ [](isEditing => editCalls # {})

(* An edit was rejected and the session is idle again, its sidebar open,   *)
(* target and working prompt kept.                                         *)
C7_Witness ==
  /\ ~isEditing /\ editCalls = {}
  /\ isEditSidebarOpen /\ editingImage # Null /\ Truthy(Trim(editPrompt))
  /\ error # Null
  /\ nreq = 1

(* The loading flag of the generator node and of the refine node.          *)
GeneratorLoading == nodes["2"].loading
RefinerLoading == "refine-1" \in DOMAIN nodes /\ nodes["refine-1"].loading

(* C8: every dispatched generate of the main flow and every pipeline       *)
(* Generator/Refiner run is followed by its loading flag being cleared     *)
(* once the remote call resolves, on success and on failure alike, and a   *)
(* flag that is set has its call in flight; with the flag cleared the      *)
(* operation is accepted again: the button of a run is enabled (given a    *)
(* prompt, for the main flow).                                             *)
C8_LoadingCleared ==
  /\ loading ~> ~loading
  /\ GeneratorLoading ~> ~GeneratorLoading
  /\ RefinerLoading ~> ~RefinerLoading
  /\ [](loading => genCalls # {})
  /\ [](GeneratorLoading => \E c \in wfCalls : c.node = "2")
  /\ [](RefinerLoading => \E c \in wfCalls : c.node = "refine-1")
  /\ [](~loading /\ Truthy(Trim(prompt)) => ~GenerateButtonDisabled)
  /\ [](~GeneratorLoading => ~RunButtonDisabled("2"))
  /\ []("refine-1" \in DOMAIN nodes /\ ~RefinerLoading => ~RunButtonDisabled("refine-1"))

(* A generator run of the pipeline was rejected and the run after it is in *)
(* flight, while the main flow is idle again after a rejected generate.    *)
C8_Witness ==
  /\ GeneratorLoading
  /\ \E c \in wfCalls : c.node = "2" /\ c.id = 3
  /\ ~loading /\ error # Null /\ genCalls = {} /\ results = <<>>
  /\ "refine-1" \notin DOMAIN nodes

(* C9: on generate success the record {returned image, submitted prompt,   *)
(* now} becomes the current result and the head of the history, followed by *)
(* the previous entries in unchanged order, truncated to 10.               *)
C9_GenerateSuccessRecord ==
  [][GenerateSuccess =>
       \E c \in genCalls \ genCalls' :
         /\ image' = [url |-> <<"img", c.id>>, prompt |-> c.prompt,
                      timestamp |-> now]
         /\ Len(history') = Min(Len(history) + 1, HistoryLimit)
         /\ history'[1] = image'
         /\ \A i \in 2..Len(history') : history'[i] = history[i - 1]]_vars

(* The current result heads a full history whose tail is the stored one;   *)
(* its prompt is the submitted text although the form was retyped since.   *)
C9_Witness ==
  /\ image # Null
  /\ Len(history) = HistoryLimit
  /\ history[1] = image
  /\ history[2] = OldRecord(1)
  /\ image.prompt # prompt

(* C10: on runEdit(p) success the history is prepended with a record whose *)
(* prompt is "Edit: " followed by p, the session is re-targeted at that    *)
(* record, the working prompt is cleared, and the main studio's prompt,    *)
(* resolution, aspect ratio, staged uploads and current result are reset   *)
(* to '' / 1K / 1:1 / empty / none.                                        *)
C10_EditSuccessEffects ==
  [][EditSuccess =>
       \E c \in editCalls \ editCalls' :
         LET rec == [url |-> <<"img", c.id>>,
                     prompt |-> <<"E", "d", "i", "t", ":", " ">> \o c.editPrompt,
                     timestamp |-> now]
         IN /\ Len(history') = Min(Len(history) + 1, HistoryLimit)
            /\ history'[1] = rec
            /\ \A i \in 2..Len(history') : history'[i] = history[i - 1]
            /\ editingImage' = rec
            /\ editPrompt' = <<>>
            /\ prompt' = <<>>
            /\ resolution' = "1K"
            /\ aspectRatio' = "1:1"
            /\ uploadedImages' = <<>>
            /\ image' = Null]_vars

(* An edit has succeeded: the session targets the new head of the history, *)
(* an "Edit: " record made from a stored one, and the main page is reset   *)
(* while a generate dispatched with other settings is still outstanding.   *)
C10_Witness ==
  /\ editingImage # Null
  /\ history # <<>>
  /\ history[1] = editingImage
  /\ Len(editingImage.prompt) > Len(EditPrefix)
  /\ SubSeq(editingImage.prompt, 1, Len(EditPrefix)) = EditPrefix
  /\ ~isEditing
  /\ editPrompt = <<>> /\ prompt = <<>> /\ image = Null
  /\ resolution = "1K" /\ aspectRatio = "1:1" /\ uploadedImages = <<>>

(* C11: the upload staging list is cleared when a generate call succeeds:  *)
(* after any successful generate the staged reference-image list is empty. *)
C11_UploadsClearedOnGenerate ==
  [][GenerateSuccess => uploadedImages' = <<>>]_vars

(* C12: the upload staging list never holds more than 2 entries, for every *)
(* sequence of file selections (multi-file selections and selections that  *)
(* complete after other uploads were added included) and removals.         *)
C12_UploadsBounded == Len(uploadedImages) <= UploadLimit

(* The list is full while a selection made when it still had room waits    *)
(* for its compression: its files arrive after other uploads were added.   *)
C12_Witness ==
  /\ Len(uploadedImages) = UploadLimit
  /\ uploadJobs # <<>>

(* A stored list of bare strings, and one of structured records.           *)
IsLegacyList(stored) ==
  stored # <<>> /\ \A i \in 1..Len(stored) : DOMAIN stored[i] = {"url"}
IsRecordList(stored) ==
  \A i \in 1..Len(stored) : DOMAIN stored[i] = {"url", "prompt", "timestamp"}

(* C13: legacy migration on load: a stored flat list of k bare image       *)
(* strings is returned as k records, in the same order, each with url      *)
(* equal to the string and prompt "Legacy Image"; a stored list of         *)
(* structured records is returned unchanged, so what the migration         *)
(* returned is migrated no further; and a load that read the store sets    *)
(* the history to the first ten of that list.                              *)
C13_LegacyMigration ==
  /\ [](LET read == GetHistoryFromDB("ok", db, now).value
        IN /\ IsLegacyList(db) =>
                /\ Len(read) = Len(db)
                /\ \A i \in 1..Len(db) :
                     /\ read[i].url = db[i].url
                     /\ read[i].prompt =
                          <<"L", "e", "g", "a", "c", "y", " ", "I", "m", "a", "g", "e">>
           /\ IsRecordList(db) => read = db
           /\ GetHistoryFromDB("ok", read, now).value = read)
  /\ [][Load /\ history' # history =>
          history' = SliceTo(GetHistoryFromDB("ok", db, now).value, HistoryLimit)]_vars

(* A legacy list of two strings was loaded: the history holds two records  *)
(* named "Legacy Image", in the stored order, and the store still holds    *)
(* the strings.                                                            *)
C13_Witness ==
  /\ isHistoryLoaded
  /\ IsLegacyList(db) /\ Len(db) = 2 /\ db[1] # db[2]
  /\ Len(history) = 2
  /\ history[1].url = db[1].url /\ history[2].url = db[2].url
  /\ Len(history[1].prompt) = 12

(* C14: load fails soft: whatever the store does (the database does not    *)
(* open, the read request errors, the transaction or the object store      *)
(* cannot be opened), the load completes without a rejection reaching its  *)
(* caller, and the 'history loaded' flag eventually becomes true, which    *)
(* enables persistence.                                                    *)
C14_LoadFailsSoft ==
  /\ []("load" \notin unhandled)
  /\ <>isHistoryLoaded

(* The load was rejected: the flag is still false and stays so.            *)
C14_Witness ==
  /\ "load" \in unhandled
  /\ ~isHistoryLoaded
  /\ history # <<>>
  /\ dbOps = <<>>

(* C15: a failed store write is a soft failure: when a save settles, with  *)
(* whatever outcome, no rejection leaves saveHistoryToDB unhandled and     *)
(* the history in memory is left as it was.                                *)
C15_SaveFailsSoft ==
  [][StoreOpDone => unhandled' = unhandled /\ history' = history]_vars

(* A save was rejected with nobody to handle it; the history is kept.      *)
C15_Witness ==
  /\ "save" \in unhandled
  /\ isHistoryLoaded
  /\ history # <<>>

(* C16: aspect-ratio clamp: the request dispatched by generateImage        *)
(* carries the requested aspect ratio unchanged when it is one of 1:1,     *)
(* 3:4, 4:3, 9:16, 16:9, 21:9, and carries 1:1 for each of 2:3, 3:2, 4:5,  *)
(* 5:4.                                                                    *)
C16_AspectRatioClamp ==
  request # Null =>
    /\ call.aspectRatio \in {"1:1", "3:4", "4:3", "9:16", "16:9", "21:9"} =>
         request.aspectRatio = call.aspectRatio
    /\ call.aspectRatio \in {"2:3", "3:2", "4:5", "5:4"} =>
         request.aspectRatio = "1:1"

(* A call asking for 4:5 was dispatched (with 1:1).                        *)
C16_Witness ==
  /\ request # Null
  /\ call.aspectRatio = "4:5"
  /\ request.aspectRatio # call.aspectRatio

(* C17: reference-image cap: whatever list of reference images the call    *)
(* is given, the dispatched request carries at most two images, each of    *)
(* them taken from the first two places of the list, in the order of the   *)
(* list; two well-formed leading images are both sent; an image at the     *)
(* third place or later is never sent.                                     *)
C17_ReferenceImageCap ==
  request # Null =>
    LET refs == call.referenceImages
        sent == request.inlineData
        firstTwo == 1..Min(2, Len(refs))
    IN /\ Len(sent) <= 2
       /\ \E place \in [1..Len(sent) -> firstTwo] :
            /\ \A k \in 1..Len(sent) : sent[k] = refs[place[k]]
            /\ \A j, k \in 1..Len(sent) : j < k => place[j] < place[k]
       /\ (\A i \in firstTwo : MatchesDataUrl(refs[i])) =>
            sent = [i \in firstTwo |-> refs[i]]

(* A call with three different well-formed images was dispatched with the  *)
(* first two.                                                              *)
C17_Witness ==
  /\ request # Null
  /\ call.referenceImages = <<<<"up", 1>>, <<"up", 2>>, <<"up", 3>>>>
  /\ request.inlineData = <<<<"up", 1>>, <<"up", 2>>>>

(* C18: declining or dismissing the delete confirmation leaves the         *)
(* history unchanged, and declining the clear confirmation leaves the      *)
(* history and the store unchanged; a step that closes one of the two      *)
(* dialogs and changes the history or queues a store operation is the      *)
(* Confirm of that dialog.                                                 *)
C18_DeclineChangesNothing ==
  /\ [][CancelDelete => history' = history /\ db' = db /\ dbOps' = dbOps]_vars
  /\ [][CancelClear => history' = history /\ db' = db /\ dbOps' = dbOps]_vars
  /\ [][(showDeleteDialog /\ ~showDeleteDialog' /\
         (history' # history \/ dbOps' # dbOps)) => ConfirmDelete]_vars
  /\ [][(showClearDialog /\ ~showClearDialog' /\
         (history' # history \/ dbOps' # dbOps)) => ConfirmClear]_vars

(* The delete confirmation was declined: the dialog is closed, the record  *)
(* it was opened for is still remembered and still in the history.         *)
C18_Witness ==
  /\ ~showDeleteDialog
  /\ imageToDelete # Null
  /\ \E i \in 1..Len(history) : history[i] = imageToDelete

(* C19: every write to the Durable History Store is issued by the save     *)
(* effect that follows a change of the history: every operation queued     *)
(* for the store is a put of saveHistoryToDB, and none is queued while     *)
(* the effect is disabled.                                                 *)
C19_SingleWriter ==
  /\ \A k \in 1..Len(dbOps) : dbOps[k].op = "put"
  /\ ~isHistoryLoaded => dbOps = <<>>

(* The store is being cleared by confirmClearHistory itself, ahead of the  *)
(* put of the save effect.                                                 *)
C19_Witness ==
  /\ Len(dbOps) = 2
  /\ dbOps[1].op = "clear"
  /\ dbOps[2].op = "put"
  /\ history = <<>>

(* No prompt node with a non-empty text is wired to the generator.          *)
NoPromptConnected ==
  \A i \in 1..Len(edges) :
    (edges[i].target = "2" /\ edges[i].source \in DOMAIN nodes
       /\ nodes[edges[i].source].type = "promptNode")
      => nodes[edges[i].source].prompt = <<>>

(* C20: a pipeline run fails fast without a prompt: when no prompt node    *)
(* with a non-empty text is connected to the generator, a run issues no    *)
(* request, records the error "No prompt provided" on the generator node,  *)
(* and leaves every other node (outputs, the refiner) and the edges        *)
(* unchanged.                                                              *)
C20_FailFastWithoutPrompt ==
  [][(RunGenerator /\ NoPromptConnected) =>
       /\ wfCalls' = wfCalls /\ nreq' = nreq
       /\ nodes'["2"].error = [msg |-> "No prompt provided"]
       /\ nodes'["2"].loading = nodes["2"].loading
       /\ DOMAIN nodes' = DOMAIN nodes
       /\ \A n \in DOMAIN nodes \ {"2"} : nodes'[n] = nodes[n]
       /\ edges' = edges]_vars

(* A run failed fast after an earlier run had filled the output node and   *)
(* created the refiner: both are as that run left them.                    *)
C20_Witness ==
  /\ NoPromptConnected
  /\ nodes["2"].error = [msg |-> "No prompt provided"]
  /\ wfCalls = {}
  /\ "refine-1" \in DOMAIN nodes
  /\ nodes["3"].image # Null

(* The output nodes at the end of an edge out of the generator.            *)
GeneratorOutputs ==
  { n \in DOMAIN nodes :
      /\ nodes[n].type = "outputNode"
      /\ \E i \in 1..Len(edges) : edges[i].source = "2" /\ edges[i].target = n }

(* C21: when a generator run succeeds, every output node at the end of an  *)
(* edge out of the generator holds the run's image with the resolution     *)
(* and aspect ratio the run was dispatched with, and the generator node    *)
(* holds the image; when a run fails, the generator node holds an error    *)
(* and no output node changes.                                             *)
C21_RunPropagation ==
  /\ [][GeneratorSuccess =>
          \E c \in wfCalls \ wfCalls' :
            /\ \A n \in GeneratorOutputs :
                 /\ {"image", "resolution", "aspectRatio"} \subseteq DOMAIN nodes'[n]
                 /\ nodes'[n].image = <<"img", c.id>>
                 /\ nodes'[n].resolution = c.resolution
                 /\ nodes'[n].aspectRatio = c.aspectRatio
            /\ nodes'["2"].outputImage = <<"img", c.id>>]_vars
  /\ [][GeneratorFailure =>
          /\ nodes'["2"].error # Null
          /\ \A n \in GeneratorOutputs : nodes'[n] = nodes[n]]_vars

(* A run succeeded after the generator's settings were changed while it    *)
(* was in flight, and a later run failed: the output node keeps the image  *)
(* and the settings of the first run.                                      *)
C21_Witness ==
  /\ wfCalls = {}
  /\ nodes["3"].image # Null
  /\ nodes["3"].resolution # nodes["2"].resolution
  /\ nodes["2"].outputImage = nodes["3"].image
  /\ nodes["2"].error # Null
  /\ nodes["2"].error # [msg |-> "No prompt provided"]

(* The edges runGenerator created from the output node to the refiner.     *)
(* setNodes and setEdges append in the same branch of runGenerator, so     *)
(* the refine nodes appended are as many as these edges.                   *)
AutoRefineEdges == { i \in 1..Len(edges) : edges[i].id = "e3-refine" }

(* C22: the refiner is materialised at most once: in every reachable       *)
(* graph there is at most one refine node and at most one edge created     *)
(* from the output node to it; there is none before a generator run has    *)
(* succeeded and one after, however many runs of the generator follow.     *)
C22_RefinerOnce ==
  /\ Cardinality({ n \in DOMAIN nodes : nodes[n].type = "refineNode" }) <= 1
  /\ Cardinality(AutoRefineEdges) <= 1
  /\ nodes["2"].outputImage = Null =>
       "refine-1" \notin DOMAIN nodes /\ AutoRefineEdges = {}
  /\ nodes["2"].outputImage # Null =>
       "refine-1" \in DOMAIN nodes /\ Cardinality(AutoRefineEdges) = 1

(* Two generator runs have succeeded one after the other; the refiner the  *)
(* first one created has been edited since.                                *)
C22_Witness ==
  /\ nodes["2"].outputImage # Null
  /\ nodes["2"].outputImage[2] = 2
  /\ "refine-1" \in DOMAIN nodes
  /\ nodes["refine-1"].prompt # <<>>
  /\ Cardinality(AutoRefineEdges) = 1

(* The calls in flight for a node of the pipeline.                         *)
CallsOf(calls, id) == { c \in calls : c.node = id }

(* C23: each pipeline node accepts one outstanding run: the generator and  *)
(* the refiner each have at most one call in flight, a node with a call    *)
(* in flight has its loading flag set, and while a node's loading flag is  *)
(* set no step dispatches a call for it.                                   *)
C23_SingleFlightPerNode ==
  /\ [](\A id \in {"2", "refine-1"} :
          /\ Cardinality(CallsOf(wfCalls, id)) <= 1
          /\ CallsOf(wfCalls, id) # {} => nodes[id].loading)
  /\ [][\A id \in DOMAIN nodes \cap {"2", "refine-1"} :
          nodes[id].loading =>
            CallsOf(wfCalls', id) \subseteq CallsOf(wfCalls, id)]_vars

(* A run of the generator and a run of the refiner are in flight at once,  *)
(* and the user can still make a gesture.                                  *)
C23_Witness ==
  /\ CallsOf(wfCalls, "2") # {}
  /\ CallsOf(wfCalls, "refine-1") # {}
  /\ gestures > 0

(* The prompt is empty or made of spaces only.                             *)
BlankPrompt == \A i \in 1..Len(prompt) : prompt[i] = " "

(* C24: generate with an empty or whitespace-only prompt is a no-op: while *)
(* the prompt is blank no step dispatches a generate request, and an       *)
(* invocation of generate (the button, the shortcut, handleGenerate        *)
(* itself) leaves loading, the error, the current result, the history and  *)
(* the staged uploads unchanged.                                           *)
C24_BlankPromptNoOp ==
  [][BlankPrompt =>
       /\ genCalls' \subseteq genCalls
       /\ (HandleGenerate \/ GenerateInvoked) =>
            UNCHANGED <<loading, error, image, history, uploadedImages, genCalls>>]_vars

(* A whitespace-only prompt after a generation has succeeded: nothing is   *)
(* in flight, the result and the history are there to be left unchanged,   *)
(* and the user can still make a gesture.                                  *)
C24_Witness ==
  /\ prompt # <<>> /\ BlankPrompt
  /\ ~loading /\ genCalls = {}
  /\ image # Null
  /\ history # <<>>
  /\ gestures > 0

(* C25: when a generate call fails, the current error becomes the          *)
(* failure's message, or the generic text when the failure has none, and   *)
(* the history, the current result, the prompt and the staged uploads are  *)
(* unchanged; a step that dispatches a generate call clears the error.     *)
C25_GenerateFailure ==
  /\ [][GenerateFailure =>
          /\ error' \in {[msg |-> "quota"], [msg |-> "t:errorGen"]}
          /\ ~loading'
          /\ UNCHANGED <<history, image, prompt, uploadedImages>>]_vars
  /\ [][~(genCalls' \subseteq genCalls) => error' = Null]_vars

(* A generate call failed with images staged and a history loaded; the     *)
(* form is as the user left it.                                            *)
C25_Witness ==
  /\ error # Null
  /\ ~loading /\ genCalls = {}
  /\ history # <<>>
  /\ uploadedImages # <<>>
  /\ Truthy(Trim(prompt))

(* The working prompt of the edit session is empty or made of spaces only. *)
BlankEditPrompt == \A i \in 1..Len(editPrompt) : editPrompt[i] = " "

(* The edit session is in Open/Idle: the sidebar is open and no edit call  *)
(* is being awaited.                                                       *)
OpenIdle == isEditSidebarOpen /\ ~isEditing

(* runEdit dispatches nothing and the session does not enter Editing.      *)
NoEditDispatched == editCalls' \subseteq editCalls /\ (isEditing' => isEditing)

(* The guards of runEdit that hold in every state: a blank working prompt, *)
(* a missing target image, an edit already awaited.                        *)
RunEditGuardedInSession ==
  [][(BlankEditPrompt \/ editingImage = Null \/ isEditing) => NoEditDispatched]_vars

(* C26: runEdit is guarded: with an empty or whitespace-only working       *)
(* prompt, with no target image, or when the session is not in Open/Idle,  *)
(* no step dispatches an edit request or enters Editing.                   *)
C26_RunEditGuarded ==
  [][(BlankEditPrompt \/ editingImage = Null \/ ~OpenIdle) => NoEditDispatched]_vars

(* An edit is awaited while the sidebar is closed.                         *)
C26_Witness ==
  /\ ~isEditSidebarOpen
  /\ isEditing
  /\ editCalls # {}

(* What a failed runEdit keeps whatever the session was: the error is      *)
(* recorded, Editing is left, and the target image, the working prompt,    *)
(* the history and the main studio's form and result are unchanged.        *)
RunEditFailureKeepsState ==
  [][EditFailure =>
       /\ ~isEditing'
       /\ error' \in {[msg |-> "quota"], [msg |-> "t:errorGen"]}
       /\ UNCHANGED <<editingImage, editPrompt, history, prompt, resolution,
                      aspectRatio, uploadedImages, image, isEditSidebarOpen>>]_vars

(* C27: when runEdit fails the session returns to Open/Idle (the sidebar   *)
(* open, no edit awaited) with the error recorded, and the target image,   *)
(* the working prompt, the history and the main studio's prompt,           *)
(* resolution, aspect ratio, staged uploads and current result are         *)
(* unchanged.                                                              *)
C27_RunEditFailure ==
  [][EditFailure =>
       /\ isEditSidebarOpen' /\ ~isEditing'
       /\ error' # Null
       /\ UNCHANGED <<editingImage, editPrompt, history, prompt, resolution,
                      aspectRatio, uploadedImages, image>>]_vars

(* An edit dispatched from the closed sidebar has failed: the error is     *)
(* recorded and the session is closed, not Open/Idle.                      *)
C27_Witness ==
  /\ error # Null
  /\ editCalls = {} /\ ~isEditing
  /\ ~isEditSidebarOpen
  /\ editingImage # Null /\ Truthy(Trim(editPrompt))
  /\ ~loading /\ genCalls = {} /\ image = Null

(* C28: when runEdit succeeds the full-screen preview is switched to the   *)
(* new image only if it was showing the target image of the edit: a        *)
(* preview that is closed stays closed, and a preview that shows another   *)
(* image is left unchanged.                                                *)
C28_PreviewFollowsTarget ==
  [][EditSuccess =>
       \E c \in editCalls \ editCalls' :
         previewImage' # previewImage =>
           /\ previewImage # Null
           /\ previewImage = c.editingImage
           /\ previewImage' = editingImage']_vars

(* C29: openFor(image), from the pencil of a history tile or the edit      *)
(* button of the preview, sets the session's target to that image, resets  *)
(* the working prompt to empty and leaves the session open, whether it     *)
(* was closed or already open; it never changes the history or the main    *)
(* result.                                                                 *)
C29_OpenFor ==
  /\ [][ClickHistoryEdit =>
          /\ \E i \in 1..Len(history) : editingImage' = history[i]
          /\ editPrompt' = <<>> /\ isEditSidebarOpen'
          /\ UNCHANGED <<history, image>>]_vars
  /\ [][ClickPreviewEdit =>
          /\ editingImage' = previewImage
          /\ editPrompt' = <<>> /\ isEditSidebarOpen'
          /\ UNCHANGED <<history, image>>]_vars

(* The session was re-targeted while it was open: an edit of another image *)
(* is still awaited, the sidebar is open and the working prompt is empty.  *)
C29_Witness ==
  /\ isEditSidebarOpen
  /\ editPrompt = <<>>
  /\ editingImage # Null
  /\ \E c \in editCalls : c.editingImage # editingImage

(* The places of the history whose entry does not carry the timestamp of   *)
(* the image to delete.                                                    *)
KeptPlaces ==
  { i \in 1..Len(history) : history[i].timestamp # imageToDelete.timestamp }

(* C30: a confirmed delete removes from the history exactly the entries    *)
(* whose timestamp equals that of the image to delete and keeps every      *)
(* other entry in its relative order; when no entry matches the history    *)
(* is unchanged.                                                           *)
C30_DeleteByTimestamp ==
  [][(ConfirmDelete /\ imageToDelete # Null) =>
       /\ Len(history') = Cardinality(KeptPlaces)
       /\ \A i \in KeptPlaces :
            history'[Cardinality({ j \in KeptPlaces : j <= i })] = history[i]
       /\ KeptPlaces = 1..Len(history) => history' = history]_vars

(* A delete was confirmed after a generation had succeeded, and other      *)
(* entries are still in the history.                                       *)
C30_Witness ==
  /\ image # Null
  /\ results = <<>>
  /\ history # <<>>
  /\ ~showDeleteDialog /\ imageToDelete = Null

(* The store-level clear of a confirmed clearHistory has not settled yet.  *)
ClearOutstanding == \E k \in 1..Len(dbOps) : dbOps[k].op = "clear"

(* The operations queued for the store from its first clear on.            *)
OpsFromClear ==
  { k \in 1..Len(dbOps) : \E c \in 1..k : dbOps[c].op = "clear" }

(* C31: a confirmed clearHistory empties the history in memory and leaves  *)
(* the store empty for a later load: while its store-level clear is        *)
(* outstanding and nothing was appended since, the history is empty and    *)
(* every operation queued from the clear on is the clear or a save of the  *)
(* empty list, so that either completion order leaves the store empty.     *)
C31_ClearEmptiesBoth ==
  (ClearOutstanding /\ results = <<>>) =>
    /\ history = <<>>
    /\ \A k \in OpsFromClear : dbOps[k].op = "clear" \/ dbOps[k].items = <<>>

(* The clear was confirmed while the initial load was pending; the load    *)
(* then put the stored records back and queued their save behind the clear. *)
C31_Witness ==
  /\ isHistoryLoaded
  /\ Len(dbOps) = 2
  /\ dbOps[1].op = "clear"
  /\ dbOps[2].op = "put" /\ dbOps[2].items # <<>>
  /\ history = dbOps[2].items
  /\ results = <<>>

(* The edges into the refiner, by their place in the list of edges.        *)
RefineInputs == { i \in 1..Len(edges) : edges[i].target = "refine-1" }

(* The refiner has a prompt and the source of its first incoming edge is   *)
(* an output node that holds an image.                                     *)
RefineReady ==
  /\ nodes["refine-1"].prompt # <<>>
  /\ \E i \in RefineInputs :
       /\ \A j \in RefineInputs : i <= j
       /\ edges[i].source \in DOMAIN nodes
       /\ nodes[edges[i].source].type = "outputNode"
       /\ nodes[edges[i].source].image # Null

(* A step changes nothing of the graph but the refiner's output image,     *)
(* error and loading flag.                                                 *)
OnlyRefinerChanges ==
  /\ edges' = edges
  /\ DOMAIN nodes' = DOMAIN nodes
  /\ \A n \in DOMAIN nodes \ {"refine-1"} : nodes'[n] = nodes[n]
  /\ nodes'["refine-1"].type = nodes["refine-1"].type
  /\ nodes'["refine-1"].prompt = nodes["refine-1"].prompt

(* C32: runRefine dispatches a request only when the refiner has a prompt, *)
(* an incoming edge and an output node holding an image as the source; the *)
(* request carries that image and the output node's stored resolution and  *)
(* aspect ratio (1K and 1:1 when none is stored).  Otherwise nothing is    *)
(* dispatched and an error is recorded on the refiner.  A run of the       *)
(* refiner, and its settling, change nothing but the refiner's own output  *)
(* image, error and loading flag.                                          *)
C32_RefineDispatch ==
  /\ [][RunRefineLogic =>
          /\ OnlyRefinerChanges
          /\ IF RefineReady
               THEN LET src == nodes[edges[CHOOSE i \in RefineInputs :
                                             \A j \in RefineInputs : i <= j].source]
                    IN /\ Cardinality(wfCalls' \ wfCalls) = 1
                       /\ \A c \in wfCalls' \ wfCalls :
                            /\ c.node = "refine-1"
                            /\ c.prompt = nodes["refine-1"].prompt
                            /\ c.images = <<src.image>>
                            /\ c.resolution = IF "resolution" \in DOMAIN src
                                                THEN src.resolution ELSE "1K"
                            /\ c.aspectRatio = IF "aspectRatio" \in DOMAIN src
                                                 THEN src.aspectRatio ELSE "1:1"
                       /\ nodes'["refine-1"].error = Null
               ELSE /\ wfCalls' = wfCalls
                    /\ nodes'["refine-1"].error # Null
                    /\ ~nodes'["refine-1"].loading]_vars
  /\ [][(RefineSuccess \/ RefineFailure) =>
          OnlyRefinerChanges /\ wfCalls' \subseteq wfCalls]_vars

(* A run of the refiner was refused for its input, its edge having been    *)
(* drawn from the prompt node, after the generator had run at 4K.          *)
C32_Witness ==
  /\ "refine-1" \in DOMAIN nodes
  /\ nodes["refine-1"].prompt # <<>>
  /\ nodes["refine-1"].error # Null
  /\ nodes["3"].image # Null
  /\ nodes["3"].resolution = "4K"
  /\ \E i \in RefineInputs : edges[i].source = "1"
  /\ \A c \in wfCalls : c.node # "refine-1"

(* A step records an error on node n: a run that fails fast or is refused, *)
(* or a call of the node that was rejected.                                *)
ErrorRecordedOn(n) ==
  /\ nodes'[n].error # Null
  /\ \/ n = "2" /\ (RunGenerator \/ GeneratorFailure)
     \/ n = "refine-1" /\ (RunRefineLogic \/ RefineFailure)

(* C33: node-local errors are cleared by the next run of their node and    *)
(* never leak: a run of the generator or of the refiner that dispatches a  *)
(* request resets the node's error to none; after a successful run the     *)
(* node's error is none; and a step that records an error on a node        *)
(* changes no other node and removes no node and no edge.                  *)
C33_NodeLocalErrors ==
  /\ [][(RunGenerator \/ RunRefineLogic) =>
          \A c \in wfCalls' \ wfCalls : nodes'[c.node].error = Null]_vars
  /\ [][GeneratorSuccess => nodes'["2"].error = Null]_vars
  /\ [][RefineSuccess => nodes'["refine-1"].error = Null]_vars
  /\ [][\A n \in {"2", "refine-1"} \cap DOMAIN nodes :
          ErrorRecordedOn(n) =>
            /\ edges' = edges
            /\ DOMAIN nodes' = DOMAIN nodes
            /\ \A o \in DOMAIN nodes \ {n} : nodes'[o] = nodes[o]]_vars

(* The refiner's rejected call left its error standing while the generator *)
(* is running again with no error of its own.                              *)
C33_Witness ==
  /\ "refine-1" \in DOMAIN nodes
  /\ nodes["refine-1"].error # Null
  /\ "msg" \in DOMAIN nodes["refine-1"].error
  /\ nodes["refine-1"].error.msg = "quota"
  /\ nodes["2"].loading
  /\ nodes["2"].error = Null
  /\ nodes["1"].prompt # <<>>
  /\ \E c \in wfCalls : c.node = "2"

(* The edges into the generator that come from an image node holding an    *)
(* image, by their place in the list of edges.                             *)
ImageEdges ==
  { i \in 1..Len(edges) :
      /\ edges[i].target = "2"
      /\ edges[i].source \in DOMAIN nodes
      /\ nodes[edges[i].source].type = "imageNode"
      /\ nodes[edges[i].source].images # <<>> }

(* C34: a run of the pipeline invokes the generation client with at most   *)
(* one input image: the first image collected, in the order of the edges,  *)
(* from the image nodes connected to the generator; what further           *)
(* connections contribute is dropped.                                      *)
C34_OneInputImage ==
  [][RunGenerator =>
       \A c \in wfCalls' \ wfCalls :
         /\ Len(c.images) <= 1
         /\ c.images =
              IF ImageEdges = {} THEN <<>>
              ELSE LET first == CHOOSE i \in ImageEdges : \A j \in ImageEdges : i <= j
                   IN <<nodes[edges[first].source].images[1]>>]_vars

(* A run is in flight with one input image while two edges bring images    *)
(* to the generator.                                                       *)
C34_Witness ==
  /\ \E c \in wfCalls : c.node = "2" /\ Len(c.images) = 1
  /\ Cardinality(ImageEdges) = 2
  /\ nodes["2"].loading

(* C35: a record appended to the history by a generate or edit success     *)
(* while the initial load was pending is not lost when the load completes: *)
(* every record the successes appended is still in the history after the   *)
(* load, which merges the stored entries with them.                        *)
C35_LoadKeepsAppended ==
  [][(Load /\ isHistoryLoaded') =>
       \A i \in 1..Len(history) :
         (\E r \in 1..Len(results) : results[r] = history[i]) =>
           \E j \in 1..Len(history') : history'[j] = history[i]]_vars

(* The load completed with the stored records after a success had been     *)
(* appended: the history holds the stored records and not the result.      *)
C35_Witness ==
  /\ isHistoryLoaded
  /\ results # <<>>
  /\ history # <<>>
  /\ \A j \in 1..Len(history) : history[j] # results[Len(results)]
  /\ image = results[Len(results)]

(* The read of the initial load failed soft: the store holds entries and   *)
(* the call returned the empty list.                                       *)
LoadFailedSoft ==
  /\ Load
  /\ isHistoryLoaded'
  /\ db # <<>>
  /\ history' = history

(* C36: a load that fails soft never causes the stored history to be       *)
(* overwritten: when the load completes with the empty list although the   *)
(* store holds entries, and the history in memory is empty, no save of the *)
(* empty list is issued by the completion of the load.                     *)
C36_SoftLoadKeepsStore ==
  [][(LoadFailedSoft /\ history = <<>>) =>
       \A k \in (Len(dbOps) + 1)..Len(dbOps') :
         ~(dbOps'[k].op = "put" /\ dbOps'[k].items = <<>>)]_vars

(* A soft-failed load has completed: the save of the empty list is queued  *)
(* for a store that holds records, and the user has done nothing.          *)
C36_Witness ==
  /\ isHistoryLoaded
  /\ history = <<>>
  /\ db # <<>>
  /\ Len(dbOps) = 1
  /\ dbOps[1].op = "put" /\ dbOps[1].items = <<>>
  /\ gestures = MaxStoreGestures

(* What a store operation leaves under 'recent' when it succeeds.          *)
StoreWritten(o) == IF o.op = "put" THEN o.items ELSE <<>>

(* C37: persistence converges: once the load has completed, the last store *)
(* operation outstanding is always the save of the history in memory,      *)
(* however saves and the store-level clear were issued; so when the last   *)
(* outstanding operation has written, with nothing mutating the history in *)
(* between, the store holds the history in memory.                         *)
C37_PersistenceConverges ==
  /\ []((isHistoryLoaded /\ dbOps # <<>>) =>
          /\ dbOps[Len(dbOps)].op = "put"
          /\ dbOps[Len(dbOps)].items = history)
  /\ [][(StoreOpDone /\ dbOps' = <<>> /\ db' = StoreWritten(Head(dbOps))) =>
          db' = history']_vars

(* Every store operation has finished after the second request succeeded,  *)
(* and the store holds the history in memory: the record of that success.  *)
C37_Witness ==
  /\ isHistoryLoaded
  /\ dbOps = <<>>
  /\ results # <<>>
  /\ history = <<results[Len(results)]>>
  /\ history[1].url = <<"img", 2>>
  /\ db = history

(* A generate or an edit succeeds.                                         *)
Succeeds == GenerateSuccess \/ EditSuccess

(* The step completes a call that was dispatched before the call of the    *)
(* success recorded last, so that the two were outstanding together.       *)
CompletesOverlapping ==
  /\ Succeeds
  /\ results # <<>>
  /\ Len(results') = Len(results) + 1
  /\ results'[Len(results')].url[2] < results[Len(results)].url[2]

(* The two flows lose nothing of each other: a success that completes      *)
(* while the record of the success before it heads the history puts its    *)
(* own record first and that record second.                                *)
FlowsKeepEachOther ==
  [][(CompletesOverlapping /\ history # <<>> /\ history[1] = results[Len(results)]) =>
       /\ history'[1] = results'[Len(results')]
       /\ history'[2] = results[Len(results)]]_vars

(* C38: no lost update between the two flows: when a generate and an edit  *)
(* are outstanding at the same time and both succeed, both records are in  *)
(* the history, the one that completed later first and the other second.   *)
C38_NoLostUpdate ==
  [][CompletesOverlapping =>
       /\ history'[1] = results'[Len(results')]
       /\ Len(history') >= 2
       /\ history'[2] = results[Len(results)]]_vars

(* The initial load completed between the two successes of calls that      *)
(* were outstanding together: the record of the first is gone.             *)
C38_Witness ==
  /\ Len(results) >= 2
  /\ results[Len(results)].url[2] < results[Len(results) - 1].url[2]
  /\ history[1] = results[Len(results)]
  /\ \A j \in 1..Len(history) : history[j] # results[Len(results) - 1]

(* C39: in every reachable state an edit in flight implies that the edit   *)
(* session is open and has a target image, and while an edit is in flight  *)
(* the session's target image does not change until the edit completes.    *)
C39_EditingInSession ==
  /\ [](isEditing => isEditSidebarOpen /\ editingImage # Null)
  /\ [][(isEditing /\ isEditing') => editingImage' = editingImage]_vars

(* An edit is in flight with the sidebar closed.                           *)
C39_Witness ==
  /\ isEditing
  /\ ~isEditSidebarOpen
  /\ editingImage # Null
  /\ editCalls # {}

(* C40: a confirmed deletion of one history entry removes exactly one      *)
(* record: whenever the selected image is in the history, the length of    *)
(* the history decreases by exactly 1, also for entries produced by the    *)
(* legacy migration and for records created within the same millisecond.   *)
C40_DeleteRemovesOne ==
  [][(ConfirmDelete /\ imageToDelete # Null
        /\ \E i \in 1..Len(history) : history[i] = imageToDelete) =>
       Len(history') = Len(history) - 1]_vars

(* Two gestures after the load of a migrated legacy list of two entries:   *)
(* the delete of one of them was confirmed and the history is empty.       *)
C40_Witness ==
  /\ isHistoryLoaded
  /\ history = <<>>
  /\ gestures = MaxGestures - 2
  /\ Len(dbOps) = 2
  /\ dbOps[1].op = "put" /\ Len(dbOps[1].items) = 2
  /\ dbOps[1].items[1].timestamp = dbOps[1].items[2].timestamp
  /\ dbOps[2].op = "put" /\ dbOps[2].items = <<>>

(* --------------------------- specifications -------------------------- *)

(* Requests, the edit session and the initial load, with store calls that  *)
(* leave no rejection unhandled.                                           *)
CoreNext ==
  \/ Load /\ UNCHANGED unhandled
  \/ StoreOpDone /\ UNCHANGED unhandled
  \/ SetPrompt
  \/ ClickGenerate
  \/ CtrlEnter
  \/ GenerateSuccess
  \/ GenerateFailure
  \/ ClickHistoryEdit
  \/ SetEditPrompt
  \/ ClickStartEdit
  \/ EditSuccess
  \/ EditFailure
  \/ ClickSidebarClose
  \/ ClickSidebarBackdrop
  \/ PressEscape

(* The delete and clear dialogs.                                           *)
DialogNext ==
  \/ HandleClearClick
  \/ ConfirmClear
  \/ CancelClear
  \/ HandleDeleteClick
  \/ ConfirmDelete
  \/ CancelDelete

(* The settings and the upload staging list.                               *)
FormNext ==
  \/ SetResolution
  \/ SetAspectRatio
  \/ HandleFileChange
  \/ CompressDone
  \/ HandleRemoveImage

(* The full-screen preview.                                                *)
PreviewNext ==
  \/ HandlePreview
  \/ ClickPreviewClose
  \/ ClickPreviewEdit

(* The timers of the warning toast.                                        *)
TimerNext ==
  \/ BusyTimeout
  \/ BusyHideTimeout
  \/ CloseWarningTimeout

Next ==
  \/ Tick
  \/ CoreNext
  \/ DialogNext

Spec == Init /\ [][Next]_vars

(* The studio with its form, staged uploads and preview, without dialogs.  *)
NextStudio ==
  \/ CoreNext
  \/ FormNext
  \/ PreviewNext

InitStudio == Mounted(MaxStudioGestures)

SpecStudio == InitStudio /\ [][NextStudio]_vars

(* A long working session of a user who works steadily: types a prompt     *)
(* when the field is empty, opens the editor once, and lets the store      *)
(* catch up with the history between two steps; the writes succeed.        *)
NextLong ==
  \/ Load /\ UNCHANGED unhandled
  \/ StoreOpDone /\ db' = Head(dbOps).items
  \/ dbOps = <<>> /\ prompt = <<>> /\ SetPrompt /\ Truthy(Trim(prompt'))
  \/ dbOps = <<>> /\ ClickGenerate
  \/ dbOps = <<>> /\ GenerateSuccess
  \/ dbOps = <<>> /\ editingImage = Null /\ ClickHistoryEdit
  \/ dbOps = <<>> /\ editPrompt = <<>> /\ SetEditPrompt /\ Truthy(Trim(editPrompt'))
  \/ dbOps = <<>> /\ ClickStartEdit
  \/ dbOps = <<>> /\ EditSuccess

InitLong == Mounted(MaxLongGestures)

SpecLong == InitLong /\ [][NextLong]_vars

(* The studio's generate and the pipeline, with remote calls that always   *)
(* settle.                                                                 *)
NextLive ==
  \/ Load /\ UNCHANGED unhandled
  \/ StoreOpDone /\ UNCHANGED unhandled
  \/ SetPrompt
  \/ ClickGenerate
  \/ GenerateSuccess
  \/ GenerateFailure
  \/ SetNodePrompt
  \/ RunGenerator
  \/ GeneratorSuccess
  \/ GeneratorFailure
  \/ SetRefinePrompt
  \/ RunRefineLogic
  \/ RefineSuccess
  \/ RefineFailure

InitLive == Mounted(MaxLiveGestures)

(* Every remote call resolves or rejects.                                  *)
SpecLive ==
  /\ InitLive
  /\ [][NextLive]_vars
  /\ WF_vars(GenerateSuccess \/ GenerateFailure)
  /\ WF_vars(GeneratorSuccess \/ GeneratorFailure)
  /\ WF_vars(RefineSuccess \/ RefineFailure)

(* The studio's generate and edit, with remote calls that always settle.   *)
NextEditLive ==
  \/ Load /\ UNCHANGED unhandled
  \/ StoreOpDone /\ UNCHANGED unhandled
  \/ SetPrompt
  \/ ClickGenerate
  \/ GenerateSuccess
  \/ GenerateFailure
  \/ ClickHistoryEdit
  \/ SetEditPrompt
  \/ ClickStartEdit
  \/ CtrlEnter
  \/ EditSuccess
  \/ EditFailure
  \/ ClickSidebarClose

SpecEditLive ==
  /\ InitLive
  /\ [][NextEditLive]_vars
  /\ WF_vars(GenerateSuccess \/ GenerateFailure)
  /\ WF_vars(EditSuccess \/ EditFailure)

(* The studio over any stored list, with every outcome of the store's      *)
(* calls; the calls of the store settle.                                   *)
NextStore ==
  \/ Load
  \/ StoreOpDone
  \/ SetPrompt
  \/ ClickGenerate
  \/ GenerateSuccess
  \/ GenerateFailure
  \/ DialogNext

InitStore == MountedOn(MaxStoreGestures, StoredLists)

SpecStore ==
  /\ InitStore
  /\ [][NextStore]_vars
  /\ WF_vars(Load)
  /\ WF_vars(StoreOpDone)

(* The generation client on any call: its arguments are drawn at the       *)
(* start and generateImage builds and dispatches the request.              *)
InitClient ==
  /\ Opened(0, {<<>>})
  /\ call \in ClientCalls /\ request = Null

NextClient == GenerateImage

SpecClient == InitClient /\ [][NextClient]_vars

(* The pipeline editor alone: prompts, generator settings and runs of the  *)
(* generator and of the refiner, with calls that resolve or reject.        *)
NextPipeline ==
  \/ SetNodePrompt
  \/ SetNodeResolution
  \/ SetNodeAspectRatio
  \/ RunGenerator
  \/ GeneratorSuccess
  \/ GeneratorFailure
  \/ SetRefinePrompt
  \/ RunRefineLogic
  \/ RefineSuccess
  \/ RefineFailure

InitPipeline == MountedOn(MaxPipelineGestures, {<<>>})

SpecPipeline == InitPipeline /\ [][NextPipeline]_vars

(* The pipeline editor with its canvas: the image node's upload, edges     *)
(* drawn and deleted, and the runs of the generator and of the refiner.    *)
NextGraph ==
  \/ NextPipeline
  \/ NodeUpload
  \/ RemoveNodeImage
  \/ OnConnect
  \/ RemoveEdge

InitGraph == MountedOn(MaxGraphGestures, {<<>>})

SpecGraph == InitGraph /\ [][NextGraph]_vars
====
